---- MODULE Spec2Model ----
(***************************************************************************)
(* PasskeyController (passkey_controller/src/lib.rs) and PaymentContract   *)
(* (payments/src/lib.rs) as state machines.                                *)
(*                                                                         *)
(* The host serialises calls, so every public method is one atomic step:   *)
(* it reads the persisted contract state and the call context, and either  *)
(* returns (state written back, promises handed to the host) or panics     *)
(* (state and promises of the call discarded by the host).  A call is a    *)
(* transaction in flight (method, context, arguments) that the contract    *)
(* then executes; its outcome is returned before the next one arrives.     *)
(*                                                                         *)
(* Option<T> is a sequence of length at most one: None == <<>>,            *)
(* Some(x) == <<x>>.  Account ids and public keys are small integers, as   *)
(* in the unit tests' accounts(i) and [i; 32] keys.  Gas is counted in     *)
(* TGas (10^12 gas).                                                       *)
(***************************************************************************)
EXTENDS Integers, Sequences, FiniteSets, TLC

\* ------------------------------------------------------------------ bounds
NumAccounts == 3
NumKeys == 2
MaxAmount == 1
MaxInitKeys == 2

\* ------------------------------------------------------- program constants
\* env::current_account_id(): the account the contract is deployed on.
CurrentAccount == 2
\* Gas::from_gas(5_000_000_000_000), in TGas.
DirectDefaultTGas == 5
\* Gas::from_gas(0)
DelegatedDefaultTGas == 0

\* ------------------------------------------------------------------- data
None == <<>>
Some(x) == <<x>>

Accounts == 0 .. (NumAccounts - 1)
Keys == 1 .. NumKeys
Amounts == 0 .. MaxAmount

OptAccount == {None} \cup {Some(a) : a \in Accounts}
\* Operand values tried for the optional fields of a descriptor: absent,
\* and the ends of the range.
OptOperandAccount == {None, Some(0), Some(NumAccounts - 1)}
OptOperandKey == {None, Some(1), Some(NumKeys)}
OptAmount == {None, Some(0), Some(MaxAmount)}

ActionType ==
  {"CreateAccount", "DeployContract", "FunctionCall", "Transfer",
   "Stake", "AddKey", "DeleteKey", "DeleteAccount"}

\* SerializableAction with every optional field absent.
EmptyAction(t) ==
  [action_type |-> t,
   receiver_id |-> None, method_name |-> None, args |-> None,
   deposit |-> None, gas |-> None, amount |-> None, public_key |-> None,
   allowance |-> None, method_names |-> None, code |-> None, stake |-> None,
   beneficiary_id |-> None, initial_deposit_for_new_account |-> None,
   public_key_for_new_account |-> None]

\* SerializableAction with every optional field present.
FullAction(t) ==
  [action_type |-> t,
   receiver_id |-> Some(0), method_name |-> Some("m"), args |-> Some("args"),
   deposit |-> Some(MaxAmount), gas |-> Some(1), amount |-> Some(MaxAmount),
   public_key |-> Some(1), allowance |-> Some(MaxAmount),
   method_names |-> Some(<<"m">>), code |-> Some("code"),
   stake |-> Some(MaxAmount), beneficiary_id |-> Some(0),
   initial_deposit_for_new_account |-> Some(MaxAmount),
   public_key_for_new_account |-> Some(1)]

\* Presence patterns of the four optional FunctionCall operands: all
\* present, all absent, and each one absent alone.
FunctionCallOperands ==
  LET full == [method_name |-> Some("m"), args |-> Some("args"),
               deposit |-> Some(MaxAmount), gas |-> Some(1)]
  IN {full,
      [method_name |-> None, args |-> None, deposit |-> None, gas |-> None],
      [full EXCEPT !.method_name = None], [full EXCEPT !.args = None],
      [full EXCEPT !.deposit = None], [full EXCEPT !.gas = None]}

\* The descriptors the calls are tried with: for each kind, the fields the
\* kind reads range over absent and present values (the target field for
\* every kind), the other fields are absent; plus one descriptor per kind
\* with every field present.
SerializableAction ==
  {[EmptyAction("CreateAccount") EXCEPT
      !.receiver_id = r, !.initial_deposit_for_new_account = d,
      !.public_key_for_new_account = k] :
      r \in OptAccount, d \in OptAmount, k \in {None, Some(1)}}
  \cup
  {[EmptyAction("DeployContract") EXCEPT !.receiver_id = r, !.code = c] :
      r \in OptAccount, c \in {None, Some("code")}}
  \cup
  {[EmptyAction("FunctionCall") EXCEPT
      !.receiver_id = r, !.method_name = f.method_name, !.args = f.args,
      !.deposit = f.deposit, !.gas = f.gas] :
      r \in OptAccount, f \in FunctionCallOperands}
  \cup
  {[EmptyAction("Transfer") EXCEPT !.receiver_id = r, !.amount = n] :
      r \in OptAccount, n \in OptAmount}
  \cup
  {[EmptyAction("Stake") EXCEPT
      !.receiver_id = r, !.stake = s, !.public_key = k] :
      r \in {None, Some(0)}, s \in OptAmount, k \in {None, Some(1)}}
  \cup
  {[EmptyAction("AddKey") EXCEPT
      !.receiver_id = r, !.public_key = k, !.allowance = n,
      !.method_names = ms] :
      r \in OptOperandAccount, k \in {None, Some(1)}, n \in OptAmount,
      ms \in {None, Some(<<"m", "n">>)}}
  \cup
  {[EmptyAction("DeleteKey") EXCEPT !.receiver_id = r, !.public_key = k] :
      r \in {None, Some(0)}, k \in OptOperandKey}
  \cup
  {[EmptyAction("DeleteAccount") EXCEPT
      !.receiver_id = r, !.beneficiary_id = b] :
      r \in {None, Some(0)}, b \in OptAccount}
  \cup
  {FullAction(t) : t \in ActionType}

\* Descriptor lists handed to execute_delegated_actions in place of its one
\* descriptor: pairs of a complete Transfer and a Transfer without amount.
ActionLists ==
  LET complete == FullAction("Transfer")
      no_amount == [EmptyAction("Transfer") EXCEPT !.receiver_id = Some(0)]
  IN {<<a, b>> : a \in {complete, no_amount}, b \in {complete, no_amount}}

\* Vec<PublicKey> of length at most MaxInitKeys (duplicates allowed).
KeyLists == UNION {[1 .. n -> Keys] : n \in 0 .. MaxInitKeys}

\* ------------------------------------------------------------------ state
VARIABLES
  contract,    \* persisted PasskeyController state: None before #[init]
  tx,          \* the transaction in flight to the contract, or None
  call,        \* the call just executed: method, context, arguments, and
               \* the persisted state it started from
  outcome,     \* how that call ended: status, panic message, return value
  scheduled,   \* the promises that call handed to the host
  payments,    \* persisted PaymentContract state: None before #[init]
  paycall,     \* the PaymentContract call just executed, with the state it
               \* started from
  payoutcome,  \* how that call ended: status, panic message, return value
  paytransfers,\* the promises that call handed to the host
  deposited,   \* history: the (reverie id, user) pairs of the successful
               \* deposits so far
  ledger       \* history, kept by LedgerSpec: per (reverie id, user) the
               \* amounts deposited, paid out by withdraw and recorded as
               \* spent so far, and the reverie ids that were deleted

passkeyvars == <<contract, tx, call, outcome, scheduled>>
paymentvars ==
  <<payments, paycall, payoutcome, paytransfers, deposited, ledger>>
vars == <<contract, tx, call, outcome, scheduled,
          payments, paycall, payoutcome, paytransfers, deposited, ledger>>

\* env::state_exists()
state_exists(st) == st # None

\* ---------------------------------------------------------- call results
\* A call that returns: the state to persist, the return value, the promises.
Return(st, ret, promises) ==
  [status |-> "ok", err |-> "", ret |-> ret, created |-> promises # <<>>,
   promises |-> promises, st |-> st]

\* A call that panics: nothing is persisted, nothing is scheduled.  created
\* records whether Promise::new had been reached when the panic happened.
Panic(st, msg, created) ==
  [status |-> "panic", err |-> msg, ret |-> None, created |-> created,
   promises |-> <<>>, st |-> st]

\* #[derive(PanicOnDefault)]: a method called before initialisation.
NotInitialized(st) == Panic(st, "The contract is not initialized", FALSE)

\* ------------------------------------------------------- PasskeyController
\* The seeding loop stopping after the first key.
InsertAll_first_only(pk_set, keys) ==
  IF keys = <<>> THEN pk_set ELSE pk_set \cup {Head(keys)}

RECURSIVE InsertAll(_, _)
\* for key in keys { pk_set.insert(key); }
InsertAll(pk_set, keys) ==
  IF keys = <<>> THEN pk_set
  ELSE InsertAll(pk_set \cup {Head(keys)}, Tail(keys))

\* new without the state_exists assertion.
new_reinit(st, trusted_relayer_account_id, owner_id, initial_passkey_pks) ==
  LET pk_set ==
        IF initial_passkey_pks # None
        THEN InsertAll({}, initial_passkey_pks[1])
        ELSE {}
  IN Return(Some([trusted_relayer_account_id |-> trusted_relayer_account_id,
                  owner_id |-> owner_id,
                  registered_passkey_pks |-> pk_set]),
            None, <<>>)

\* PasskeyController::new
new(st, trusted_relayer_account_id, owner_id, initial_passkey_pks) ==
  IF state_exists(st) THEN Panic(st, "Already initialized", FALSE)
  ELSE
    LET pk_set ==
          IF initial_passkey_pks # None
          THEN InsertAll({}, initial_passkey_pks[1])
          ELSE {}
    IN Return(Some([trusted_relayer_account_id |-> trusted_relayer_account_id,
                    owner_id |-> owner_id,
                    registered_passkey_pks |-> pk_set]),
              None, <<>>)

\* set_trusted_relayer that also hands the ownership to the new relayer.
set_trusted_relayer_takes_ownership(st, predecessor, account_id) ==
  IF ~state_exists(st) THEN NotInitialized(st)
  ELSE IF predecessor # st[1].owner_id
  THEN Panic(st, "Only owner can set trusted relayer", FALSE)
  ELSE Return(Some([st[1] EXCEPT !.trusted_relayer_account_id = account_id,
                                 !.owner_id = account_id]),
              None, <<>>)

\* set_trusted_relayer that refuses the account that is already the relayer.
set_trusted_relayer_rejects_same(st, predecessor, account_id) ==
  IF ~state_exists(st) THEN NotInitialized(st)
  ELSE IF predecessor # st[1].owner_id
  THEN Panic(st, "Only owner can set trusted relayer", FALSE)
  ELSE IF account_id = st[1].trusted_relayer_account_id
  THEN Panic(st, "Already the trusted relayer", FALSE)
  ELSE Return(Some([st[1] EXCEPT !.trusted_relayer_account_id = account_id]),
              None, <<>>)

\* set_trusted_relayer without the owner assertion.
set_trusted_relayer_any_caller(st, predecessor, account_id) ==
  IF ~state_exists(st) THEN NotInitialized(st)
  ELSE Return(Some([st[1] EXCEPT !.trusted_relayer_account_id = account_id]),
              None, <<>>)

\* PasskeyController::set_trusted_relayer
set_trusted_relayer(st, predecessor, account_id) ==
  IF ~state_exists(st) THEN NotInitialized(st)
  ELSE IF predecessor # st[1].owner_id
  THEN Panic(st, "Only owner can set trusted relayer", FALSE)
  ELSE Return(Some([st[1] EXCEPT !.trusted_relayer_account_id = account_id]),
              None, <<>>)

\* PasskeyController::get_trusted_relayer
get_trusted_relayer(st) == st[1].trusted_relayer_account_id

\* PasskeyController::get_owner_id
get_owner_id(st) == st[1].owner_id

\* PasskeyController::is_passkey_pk_registered
is_passkey_pk_registered(st, passkey_pk) ==
  passkey_pk \in st[1].registered_passkey_pks

\* add_passkey_pk that overwrites the set with the new key.
add_passkey_pk_replace(st, predecessor, passkey_pk) ==
  IF ~state_exists(st) THEN NotInitialized(st)
  ELSE IF predecessor # st[1].trusted_relayer_account_id
  THEN Panic(st, "Only trusted relayer can add passkey PKs", FALSE)
  ELSE Return(Some([st[1] EXCEPT !.registered_passkey_pks = {passkey_pk}]),
              Some(passkey_pk \notin st[1].registered_passkey_pks), <<>>)

\* add_passkey_pk with the caller compared to the owner instead of the relayer.
add_passkey_pk_owner_check(st, predecessor, passkey_pk) ==
  IF ~state_exists(st) THEN NotInitialized(st)
  ELSE IF predecessor # st[1].owner_id
  THEN Panic(st, "Only trusted relayer can add passkey PKs", FALSE)
  ELSE Return(Some([st[1] EXCEPT !.registered_passkey_pks = @ \cup {passkey_pk}]),
              Some(passkey_pk \notin st[1].registered_passkey_pks), <<>>)

\* PasskeyController::add_passkey_pk
add_passkey_pk(st, predecessor, passkey_pk) ==
  IF ~state_exists(st) THEN NotInitialized(st)
  ELSE IF predecessor # st[1].trusted_relayer_account_id
  THEN Panic(st, "Only trusted relayer can add passkey PKs", FALSE)
  ELSE Return(Some([st[1] EXCEPT !.registered_passkey_pks = @ \cup {passkey_pk}]),
              Some(passkey_pk \notin st[1].registered_passkey_pks), <<>>)

\* remove_passkey_pk that reports whether the key is present after removal.
remove_passkey_pk_stale_result(st, predecessor, passkey_pk) ==
  IF ~state_exists(st) THEN NotInitialized(st)
  ELSE IF predecessor # st[1].trusted_relayer_account_id
  THEN Panic(st, "Only trusted relayer can remove passkey PKs", FALSE)
  ELSE Return(Some([st[1] EXCEPT !.registered_passkey_pks = @ \ {passkey_pk}]),
              Some(FALSE), <<>>)

\* remove_passkey_pk that reports the removal without making it.
remove_passkey_pk_keeps_key(st, predecessor, passkey_pk) ==
  IF ~state_exists(st) THEN NotInitialized(st)
  ELSE IF predecessor # st[1].trusted_relayer_account_id
  THEN Panic(st, "Only trusted relayer can remove passkey PKs", FALSE)
  ELSE Return(st, Some(passkey_pk \in st[1].registered_passkey_pks), <<>>)

\* remove_passkey_pk that the owner may call as well as the relayer.
remove_passkey_pk_owner_allowed(st, predecessor, passkey_pk) ==
  IF ~state_exists(st) THEN NotInitialized(st)
  ELSE IF predecessor # st[1].trusted_relayer_account_id
          /\ predecessor # st[1].owner_id
  THEN Panic(st, "Only trusted relayer can remove passkey PKs", FALSE)
  ELSE Return(Some([st[1] EXCEPT !.registered_passkey_pks = @ \ {passkey_pk}]),
              Some(passkey_pk \in st[1].registered_passkey_pks), <<>>)

\* PasskeyController::remove_passkey_pk
remove_passkey_pk(st, predecessor, passkey_pk) ==
  IF ~state_exists(st) THEN NotInitialized(st)
  ELSE IF predecessor # st[1].trusted_relayer_account_id
  THEN Panic(st, "Only trusted relayer can remove passkey PKs", FALSE)
  ELSE Return(Some([st[1] EXCEPT !.registered_passkey_pks = @ \ {passkey_pk}]),
              Some(passkey_pk \in st[1].registered_passkey_pks), <<>>)

\* ------------------------------------------------------ promise building
\* One primitive operation of a promise batch.
CreateAccountOp == [op |-> "create_account"]
TransferOp(n) == [op |-> "transfer", amount |-> n]
AddFullAccessKeyOp(k) == [op |-> "add_full_access_key", public_key |-> k]
DeployContractOp(c) == [op |-> "deploy_contract", code |-> c]
FunctionCallOp(m, a, d, g) ==
  [op |-> "function_call", method_name |-> m, args |-> a, deposit |-> d,
   gas |-> g]
StakeOp(n, k) == [op |-> "stake", amount |-> n, public_key |-> k]
AddAccessKeyOp(k, al, r, ms) ==
  [op |-> "add_access_key_allowance", public_key |-> k, allowance |-> al,
   receiver_id |-> r, method_names |-> ms]
DeleteKeyOp(k) == [op |-> "delete_key", public_key |-> k]
DeleteAccountOp(b) == [op |-> "delete_account", beneficiary_id |-> b]

\* Promise::new(target) followed by the chained operations.
Promise(target, ops) == [target |-> target, actions |-> ops]

\* Allowance::Unlimited / Allowance::Limited(n)
Unlimited == <<"Unlimited">>
Limited(n) == <<"Limited", n>>

\* get_action_allowance without the `> 0` guard.
get_action_allowance_any_limited(a) ==
  IF a.allowance # None THEN Limited(a.allowance[1]) ELSE Unlimited

\* SerializableAction::get_action_allowance
get_action_allowance(a) ==
  IF a.allowance # None /\ a.allowance[1] > 0
  THEN Limited(a.allowance[1])
  ELSE Unlimited

RECURSIVE Join(_)
\* Vec<String>::join(",")
Join(names) ==
  IF names = <<>> THEN ""
  ELSE IF Len(names) = 1 THEN names[1]
  ELSE names[1] \o "," \o Join(Tail(names))

\* Option::unwrap_or_else(|| default)
UnwrapOr(opt, default) == IF opt = None THEN default ELSE opt[1]

\* Result of a match arm: the operations chained on the promise, or the
\* message of the panic raised by an unwrap_or_else(|| panic!(..)).
Built(ops) == [err |-> "", ops |-> ops]
Fail(msg) == [err |-> msg, ops |-> <<>>]

\* The new account's key added before its initial deposit is transferred.
create_account_ops_key_first(a) ==
  <<CreateAccountOp>>
  \o (IF a.public_key_for_new_account # None
      THEN <<AddFullAccessKeyOp(a.public_key_for_new_account[1])>> ELSE <<>>)
  \o (IF a.initial_deposit_for_new_account # None
         /\ a.initial_deposit_for_new_account[1] > 0
      THEN <<TransferOp(a.initial_deposit_for_new_account[1])>> ELSE <<>>)

\* The CreateAccount arm after the target is known (same in both methods).
create_account_ops(a) ==
  <<CreateAccountOp>>
  \o (IF a.initial_deposit_for_new_account # None
         /\ a.initial_deposit_for_new_account[1] > 0
      THEN <<TransferOp(a.initial_deposit_for_new_account[1])>> ELSE <<>>)
  \o (IF a.public_key_for_new_account # None
      THEN <<AddFullAccessKeyOp(a.public_key_for_new_account[1])>> ELSE <<>>)

\* The AddKey arm with an optional scope: an absent receiver_id scopes the
\* key to the contract's own account.
add_key_ops_scope_optional(a) ==
  IF a.public_key = None THEN Fail("public_key is required for AddKey")
  ELSE Built(<<AddAccessKeyOp(a.public_key[1], get_action_allowance(a),
                              UnwrapOr(a.receiver_id, CurrentAccount),
                              Join(UnwrapOr(a.method_names, <<>>)))>>)

\* The AddKey arm: operands are evaluated left to right.
add_key_ops(a) ==
  IF a.public_key = None THEN Fail("public_key is required for AddKey")
  ELSE IF a.receiver_id = None
  THEN Fail("receiver_id for allowance scope is required for AddKey")
  ELSE Built(<<AddAccessKeyOp(a.public_key[1], get_action_allowance(a),
                              a.receiver_id[1],
                              Join(UnwrapOr(a.method_names, <<>>)))>>)

\* The direct target resolution using the contract's own account where the
\* code uses the signer's.
direct_target_current(a, signer_account_id) ==
  IF a.action_type \in {"FunctionCall", "Transfer"}
  THEN IF a.receiver_id = None
       THEN [err |-> "receiver_id is required for FunctionCall/Transfer",
             target |-> None]
       ELSE [err |-> "", target |-> a.receiver_id]
  ELSE [err |-> "", target |-> Some(CurrentAccount)]

\* The direct target resolution falling back to the signer when the
\* FunctionCall/Transfer target is absent.
direct_target_default_signer(a, signer_account_id) ==
  IF a.action_type \in {"FunctionCall", "Transfer"} /\ a.receiver_id # None
  THEN [err |-> "", target |-> a.receiver_id]
  ELSE [err |-> "", target |-> Some(signer_account_id)]

\* execute_direct_actions: `let promise_target_account_id = match ...`
direct_target(a, signer_account_id) ==
  IF a.action_type \in {"FunctionCall", "Transfer"}
  THEN IF a.receiver_id = None
       THEN [err |-> "receiver_id is required for FunctionCall/Transfer",
             target |-> None]
       ELSE [err |-> "", target |-> a.receiver_id]
  ELSE [err |-> "", target |-> Some(signer_account_id)]

\* direct_ops with a Transfer that adds the descriptor's deposit field to the
\* amount it moves.
direct_ops_transfer_adds_deposit(a) ==
  CASE a.action_type = "CreateAccount" ->
         IF a.receiver_id = None
         THEN Fail("receiver_id (new account_id) is required for CreateAccount")
         ELSE Built(create_account_ops(a))
    [] a.action_type = "DeployContract" ->
         Built(<<DeployContractOp(UnwrapOr(a.code, ""))>>)
    [] a.action_type = "FunctionCall" ->
         Built(<<FunctionCallOp(UnwrapOr(a.method_name, ""),
                                UnwrapOr(a.args, ""),
                                UnwrapOr(a.deposit, 0),
                                UnwrapOr(a.gas, DirectDefaultTGas))>>)
    [] a.action_type = "Transfer" ->
         IF a.amount = None THEN Fail("amount is required for Transfer")
         ELSE Built(<<TransferOp(a.amount[1] + UnwrapOr(a.deposit, 0))>>)
    [] a.action_type = "Stake" ->
         IF a.stake = None THEN Fail("stake amount is required for Stake")
         ELSE IF a.public_key = None
         THEN Fail("validator public_key is required for Stake")
         ELSE Built(<<StakeOp(a.stake[1], a.public_key[1])>>)
    [] a.action_type = "AddKey" -> add_key_ops(a)
    [] a.action_type = "DeleteKey" ->
         IF a.public_key = None THEN Fail("public_key is required for DeleteKey")
         ELSE Built(<<DeleteKeyOp(a.public_key[1])>>)
    [] a.action_type = "DeleteAccount" ->
         IF a.beneficiary_id = None
         THEN Fail("beneficiary_id is required for DeleteAccount")
         ELSE Built(<<DeleteAccountOp(a.beneficiary_id[1])>>)

\* execute_direct_actions: the second `match action_data.action_type`
direct_ops(a) ==
  CASE a.action_type = "CreateAccount" ->
         IF a.receiver_id = None
         THEN Fail("receiver_id (new account_id) is required for CreateAccount")
         ELSE Built(create_account_ops(a))
    [] a.action_type = "DeployContract" ->
         Built(<<DeployContractOp(UnwrapOr(a.code, ""))>>)
    [] a.action_type = "FunctionCall" ->
         Built(<<FunctionCallOp(UnwrapOr(a.method_name, ""),
                                UnwrapOr(a.args, ""),
                                UnwrapOr(a.deposit, 0),
                                UnwrapOr(a.gas, DirectDefaultTGas))>>)
    [] a.action_type = "Transfer" ->
         IF a.amount = None THEN Fail("amount is required for Transfer")
         ELSE Built(<<TransferOp(a.amount[1])>>)
    [] a.action_type = "Stake" ->
         IF a.stake = None THEN Fail("stake amount is required for Stake")
         ELSE IF a.public_key = None
         THEN Fail("validator public_key is required for Stake")
         ELSE Built(<<StakeOp(a.stake[1], a.public_key[1])>>)
    [] a.action_type = "AddKey" -> add_key_ops(a)
    [] a.action_type = "DeleteKey" ->
         IF a.public_key = None THEN Fail("public_key is required for DeleteKey")
         ELSE Built(<<DeleteKeyOp(a.public_key[1])>>)
    [] a.action_type = "DeleteAccount" ->
         IF a.beneficiary_id = None
         THEN Fail("beneficiary_id is required for DeleteAccount")
         ELSE Built(<<DeleteAccountOp(a.beneficiary_id[1])>>)

\* execute_direct_actions gated on the calling account being the relayer.
execute_direct_actions_checks_caller(st, predecessor, signer_account_id, signer_pk, a) ==
  IF ~state_exists(st) THEN NotInitialized(st)
  ELSE IF predecessor # st[1].trusted_relayer_account_id
  THEN Panic(st, "ERR_SIGNER_PK_NOT_REGISTERED_AS_PASSKEY", FALSE)
  ELSE
    LET t == direct_target(a, signer_account_id) IN
    IF t.err # "" THEN Panic(st, t.err, FALSE)
    ELSE
      LET b == direct_ops(a) IN
      IF b.err # "" THEN Panic(st, b.err, TRUE)
      ELSE Return(st, None, <<Promise(t.target[1], b.ops)>>)

\* execute_direct_actions resolving the target before the registration check.
execute_direct_actions_validate_first(st, predecessor, signer_account_id, signer_pk, a) ==
  IF ~state_exists(st) THEN NotInitialized(st)
  ELSE
    LET t == direct_target(a, signer_account_id) IN
    IF t.err # "" THEN Panic(st, t.err, FALSE)
    ELSE IF signer_pk \notin st[1].registered_passkey_pks
    THEN Panic(st, "ERR_SIGNER_PK_NOT_REGISTERED_AS_PASSKEY", FALSE)
    ELSE
      LET b == direct_ops(a) IN
      IF b.err # "" THEN Panic(st, b.err, TRUE)
      ELSE Return(st, None, <<Promise(t.target[1], b.ops)>>)

\* execute_direct_actions that lets the owner call with any signer key.
execute_direct_actions_owner_bypass(st, predecessor, signer_account_id, signer_pk, a) ==
  IF ~state_exists(st) THEN NotInitialized(st)
  ELSE IF signer_pk \notin st[1].registered_passkey_pks
          /\ predecessor # st[1].owner_id
  THEN Panic(st, "ERR_SIGNER_PK_NOT_REGISTERED_AS_PASSKEY", FALSE)
  ELSE
    LET t == direct_target(a, signer_account_id) IN
    IF t.err # "" THEN Panic(st, t.err, FALSE)
    ELSE
      LET b == direct_ops(a) IN
      IF b.err # "" THEN Panic(st, b.err, TRUE)
      ELSE Return(st, None, <<Promise(t.target[1], b.ops)>>)

\* PasskeyController::execute_direct_actions
execute_direct_actions(st, predecessor, signer_account_id, signer_pk, a) ==
  IF ~state_exists(st) THEN NotInitialized(st)
  ELSE IF signer_pk \notin st[1].registered_passkey_pks
  THEN Panic(st, "ERR_SIGNER_PK_NOT_REGISTERED_AS_PASSKEY", FALSE)
  ELSE
    LET t == direct_target(a, signer_account_id) IN
    IF t.err # "" THEN Panic(st, t.err, FALSE)
    ELSE
      LET b == direct_ops(a) IN
      IF b.err # "" THEN Panic(st, b.err, TRUE)
      ELSE Return(st, None, <<Promise(t.target[1], b.ops)>>)

\* The delegated target resolution preferring receiver_id for every kind.
delegated_target_receiver_first(a) ==
  IF a.receiver_id # None THEN [err |-> "", target |-> a.receiver_id]
  ELSE IF a.action_type \in {"FunctionCall", "Transfer"}
  THEN [err |-> "receiver_id is required for FunctionCall/Transfer",
        target |-> None]
  ELSE IF a.action_type = "CreateAccount"
  THEN [err |-> "receiver_id is required for CreateAccount (as the new account_id)",
        target |-> None]
  ELSE [err |-> "", target |-> Some(CurrentAccount)]

\* The delegated target resolution sending Transfer to the contract itself.
delegated_target_self(a) ==
  IF a.action_type = "FunctionCall"
  THEN IF a.receiver_id = None
       THEN [err |-> "receiver_id is required for FunctionCall/Transfer",
             target |-> None]
       ELSE [err |-> "", target |-> a.receiver_id]
  ELSE IF a.action_type = "CreateAccount"
  THEN IF a.receiver_id = None
       THEN [err |-> "receiver_id is required for CreateAccount (as the new account_id)",
             target |-> None]
       ELSE [err |-> "", target |-> a.receiver_id]
  ELSE [err |-> "", target |-> Some(CurrentAccount)]

\* execute_delegated_actions: `let promise_target_account_id = match ...`
delegated_target(a) ==
  IF a.action_type \in {"FunctionCall", "Transfer"}
  THEN IF a.receiver_id = None
       THEN [err |-> "receiver_id is required for FunctionCall/Transfer",
             target |-> None]
       ELSE [err |-> "", target |-> a.receiver_id]
  ELSE IF a.action_type = "CreateAccount"
  THEN IF a.receiver_id = None
       THEN [err |-> "receiver_id is required for CreateAccount (as the new account_id)",
             target |-> None]
       ELSE [err |-> "", target |-> a.receiver_id]
  ELSE [err |-> "", target |-> Some(CurrentAccount)]

\* execute_delegated_actions: the second `match action_data.action_type`
delegated_ops(a) ==
  CASE a.action_type = "CreateAccount" -> Built(create_account_ops(a))
    [] a.action_type = "DeployContract" ->
         Built(<<DeployContractOp(UnwrapOr(a.code, ""))>>)
    [] a.action_type = "FunctionCall" ->
         Built(<<FunctionCallOp(UnwrapOr(a.method_name, ""),
                                UnwrapOr(a.args, ""),
                                UnwrapOr(a.deposit, 0),
                                UnwrapOr(a.gas, DelegatedDefaultTGas))>>)
    [] a.action_type = "Transfer" ->
         IF a.amount = None THEN Fail("amount is required for Transfer")
         ELSE Built(<<TransferOp(a.amount[1])>>)
    [] a.action_type = "Stake" ->
         IF a.stake = None THEN Fail("stake amount is required for Stake")
         ELSE IF a.public_key = None
         THEN Fail("public_key is required for Stake")
         ELSE Built(<<StakeOp(a.stake[1], a.public_key[1])>>)
    [] a.action_type = "AddKey" -> add_key_ops(a)
    [] a.action_type = "DeleteKey" ->
         IF a.public_key = None THEN Fail("public_key is required for DeleteKey")
         ELSE Built(<<DeleteKeyOp(a.public_key[1])>>)
    [] a.action_type = "DeleteAccount" ->
         IF a.beneficiary_id = None
         THEN Fail("beneficiary_id is required for DeleteAccount")
         ELSE Built(<<DeleteAccountOp(a.beneficiary_id[1])>>)

\* execute_delegated_actions returning normally, with the promise created for
\* the target left behind, when an operand is missing.
execute_delegated_actions_soft_fail(st, predecessor, passkey_pk_used, a) ==
  IF ~state_exists(st) THEN NotInitialized(st)
  ELSE IF predecessor # st[1].trusted_relayer_account_id
  THEN Panic(st, "Only trusted relayer can execute actions", FALSE)
  ELSE IF passkey_pk_used \notin st[1].registered_passkey_pks
  THEN Panic(st, "Passkey PK not registered", FALSE)
  ELSE
    LET t == delegated_target(a) IN
    IF t.err # "" THEN Panic(st, t.err, FALSE)
    ELSE
      LET b == delegated_ops(a) IN
      Return(st, None, <<Promise(t.target[1], b.ops)>>)

\* execute_delegated_actions using up the key it was called with.
execute_delegated_actions_consumes_key(st, predecessor, passkey_pk_used, a) ==
  IF ~state_exists(st) THEN NotInitialized(st)
  ELSE IF predecessor # st[1].trusted_relayer_account_id
  THEN Panic(st, "Only trusted relayer can execute actions", FALSE)
  ELSE IF passkey_pk_used \notin st[1].registered_passkey_pks
  THEN Panic(st, "Passkey PK not registered", FALSE)
  ELSE
    LET t == delegated_target(a) IN
    IF t.err # "" THEN Panic(st, t.err, FALSE)
    ELSE
      LET b == delegated_ops(a) IN
      IF b.err # "" THEN Panic(st, b.err, TRUE)
      ELSE Return(Some([st[1] EXCEPT
                          !.registered_passkey_pks = @ \ {passkey_pk_used}]),
                  None, <<Promise(t.target[1], b.ops)>>)

\* execute_delegated_actions with its two assertions in the other order.
execute_delegated_actions_pk_first(st, predecessor, passkey_pk_used, a) ==
  IF ~state_exists(st) THEN NotInitialized(st)
  ELSE IF passkey_pk_used \notin st[1].registered_passkey_pks
  THEN Panic(st, "Passkey PK not registered", FALSE)
  ELSE IF predecessor # st[1].trusted_relayer_account_id
  THEN Panic(st, "Only trusted relayer can execute actions", FALSE)
  ELSE
    LET t == delegated_target(a) IN
    IF t.err # "" THEN Panic(st, t.err, FALSE)
    ELSE
      LET b == delegated_ops(a) IN
      IF b.err # "" THEN Panic(st, b.err, TRUE)
      ELSE Return(st, None, <<Promise(t.target[1], b.ops)>>)

\* PasskeyController::execute_delegated_actions
execute_delegated_actions(st, predecessor, passkey_pk_used, a) ==
  IF ~state_exists(st) THEN NotInitialized(st)
  ELSE IF predecessor # st[1].trusted_relayer_account_id
  THEN Panic(st, "Only trusted relayer can execute actions", FALSE)
  ELSE IF passkey_pk_used \notin st[1].registered_passkey_pks
  THEN Panic(st, "Passkey PK not registered", FALSE)
  ELSE
    LET t == delegated_target(a) IN
    IF t.err # "" THEN Panic(st, t.err, FALSE)
    ELSE
      LET b == delegated_ops(a) IN
      IF b.err # "" THEN Panic(st, b.err, TRUE)
      ELSE Return(st, None, <<Promise(t.target[1], b.ops)>>)

\* execute_delegated_actions called with a list of descriptors as
\* action_to_execute: the parameter is one SerializableAction, the argument
\* does not deserialize and the method body is not entered.
execute_delegated_actions_list(st, predecessor, passkey_pk_used, actions) ==
  Panic(st, "Failed to deserialize input from JSON.", FALSE)

\* ----------------------------------------------------------------- steps
\* A transaction: the method, the context the host gives the call
\* (predecessor, signer, signer key) and the arguments.
Tx(method, predecessor, signer, signer_pk, account_id, owner_id, pk, keys, a) ==
  [method |-> method, predecessor |-> predecessor, signer |-> signer,
   signer_pk |-> signer_pk, account_id |-> account_id, owner_id |-> owner_id,
   passkey_pk |-> pk, keys |-> keys, action |-> a]

NoCall ==
  [method |-> "none", predecessor |-> CurrentAccount,
   signer |-> CurrentAccount, signer_pk |-> 1, account_id |-> None,
   owner_id |-> None, passkey_pk |-> None, keys |-> None, action |-> None,
   pre |-> None]

NoOutcome == [status |-> "none", err |-> "", ret |-> None, created |-> FALSE]

\* Every transaction that can be sent to the contract.
Transactions ==
  {Tx("new", o, o, 1, Some(r), Some(o), None, ks, None) :
     r \in Accounts, o \in Accounts,
     ks \in {None} \cup {Some(l) : l \in KeyLists}}
  \cup
  {Tx("set_trusted_relayer", p, p, 1, Some(x), None, None, None, None) :
     p \in Accounts, x \in Accounts}
  \cup
  {Tx(m, p, p, 1, None, None, Some(k), None, None) :
     m \in {"add_passkey_pk", "remove_passkey_pk"}, p \in Accounts,
     k \in Keys}
  \cup
  {Tx("execute_direct_actions", p, s, spk, None, None, None, None, Some(a)) :
     p \in Accounts, s \in Accounts, spk \in Keys, a \in SerializableAction}
  \cup
  {Tx("execute_delegated_actions", p, p, 1, None, None, Some(k), None,
      Some(a)) :
     p \in Accounts, k \in Keys, a \in SerializableAction}
  \cup
  {Tx("execute_delegated_actions(list)", p, p, 1, None, None, Some(k), None,
      Some(l)) :
     p \in Accounts, k \in Keys, l \in ActionLists}

\* The host commits a call that returned and discards one that panicked.
Commit(r) ==
  /\ call' = [method |-> tx[1].method, predecessor |-> tx[1].predecessor,
              signer |-> tx[1].signer, signer_pk |-> tx[1].signer_pk,
              account_id |-> tx[1].account_id, owner_id |-> tx[1].owner_id,
              passkey_pk |-> tx[1].passkey_pk, keys |-> tx[1].keys,
              action |-> tx[1].action, pre |-> contract]
  /\ outcome' = [status |-> r.status, err |-> r.err, ret |-> r.ret,
                 created |-> r.created]
  /\ contract' = IF r.status = "ok" THEN r.st ELSE contract
  /\ scheduled' = IF r.status = "ok" THEN r.promises ELSE <<>>
  /\ tx' = None
  /\ UNCHANGED paymentvars

\* No PaymentContract call has been executed.
PayNoCall ==
  [method |-> "none", predecessor |-> CurrentAccount, attached_deposit |-> 0,
   reverie_id |-> None, user_id |-> None, amount |-> None,
   account_id |-> None, metadata |-> None, pre |-> None]

PayNoOutcome == [status |-> "none", err |-> "", ret |-> None]

\* The reverie ids used in calls.
ReverieId == {"rev1", "rev2"}

\* Nothing deposited, withdrawn or spent, no reverie deleted.  The amounts
\* are kept per <<reverie id, user>> pair, for the pairs that moved any.
NoLedger ==
  [deposits |-> [e \in {} |-> 0], withdrawals |-> [e \in {} |-> 0],
   spends |-> [e \in {} |-> 0], removed |-> {}]

\* Both contracts are deployed and not yet initialised.
Init ==
  /\ contract = None
  /\ tx = None
  /\ call = NoCall
  /\ outcome = NoOutcome
  /\ scheduled = <<>>
  /\ payments = None
  /\ paycall = PayNoCall
  /\ payoutcome = PayNoOutcome
  /\ paytransfers = <<>>
  /\ deposited = {}
  /\ ledger = NoLedger

\* A transaction arrives once the previous outcome has been returned.
SubmitTransaction ==
  /\ tx = None
  /\ call = NoCall
  /\ \E t \in Transactions : tx' = Some(t)
  /\ UNCHANGED <<contract, call, outcome, scheduled>>
  /\ UNCHANGED paymentvars

\* The outcome of the executed call is returned to the sender and its
\* promises leave for their target accounts.
ReturnOutcome ==
  /\ call # NoCall
  /\ call' = NoCall
  /\ outcome' = NoOutcome
  /\ scheduled' = <<>>
  /\ UNCHANGED <<contract, tx>>
  /\ UNCHANGED paymentvars

Pending(method) == tx # None /\ tx[1].method = method

CallNew ==
  /\ Pending("new")
  /\ Commit(new(contract, tx[1].account_id[1], tx[1].owner_id[1], tx[1].keys))

CallSetTrustedRelayer ==
  /\ Pending("set_trusted_relayer")
  /\ Commit(set_trusted_relayer(contract, tx[1].predecessor,
                                tx[1].account_id[1]))

CallAddPasskeyPk ==
  /\ Pending("add_passkey_pk")
  /\ Commit(add_passkey_pk(contract, tx[1].predecessor, tx[1].passkey_pk[1]))

CallRemovePasskeyPk ==
  /\ Pending("remove_passkey_pk")
  /\ Commit(remove_passkey_pk(contract, tx[1].predecessor,
                              tx[1].passkey_pk[1]))

CallExecuteDirectActions ==
  /\ Pending("execute_direct_actions")
  /\ Commit(execute_direct_actions(contract, tx[1].predecessor, tx[1].signer,
                                   tx[1].signer_pk, tx[1].action[1]))

CallExecuteDelegatedActions ==
  /\ Pending("execute_delegated_actions")
  /\ Commit(execute_delegated_actions(contract, tx[1].predecessor,
                                      tx[1].passkey_pk[1], tx[1].action[1]))

CallExecuteDelegatedActionsList ==
  /\ Pending("execute_delegated_actions(list)")
  /\ Commit(execute_delegated_actions_list(contract, tx[1].predecessor,
                                           tx[1].passkey_pk[1],
                                           tx[1].action[1]))

Next ==
  \/ SubmitTransaction
  \/ CallNew
  \/ CallSetTrustedRelayer
  \/ CallAddPasskeyPk
  \/ CallRemovePasskeyPk
  \/ CallExecuteDirectActions
  \/ CallExecuteDelegatedActions
  \/ CallExecuteDelegatedActionsList
  \/ ReturnOutcome

Spec == Init /\ [][Next]_vars

TypeOK ==
  /\ contract \in {None} \cup
       {Some(c) : c \in [trusted_relayer_account_id : Accounts,
                         owner_id : Accounts,
                         registered_passkey_pks : SUBSET Keys]}
  /\ outcome.status \in {"none", "ok", "panic"}
  /\ Len(scheduled) <= 1

\* --------------------------------------------------------- PaymentContract
\* payments/src/lib.rs.  The contract keeps, per reverie id, a LookupMap of
\* user balances.  A LookupMap is a handle (its storage prefix); its entries
\* live in the contract's storage under that prefix.

\* The metadata values used in calls (reverie_type stands for the record).
ReverieMetadata == {"type1", "type2"}
\* Balances explored: deposits are accepted up to this balance, and by at
\* most this many (reverie, user) pairs.
MaxBalance == MaxAmount + 1
MaxDepositors == Cardinality(ReverieId)
\* The accounts that hold balances: two accounts other than the contract's
\* own.
Users == {0, 1}
\* The amounts asked of record_spend, withdraw and can_spend.
SpendAmounts == {0, 1, MaxBalance}

\* LookupMap::new(format!("b:{}", reverie_id).as_bytes())
BalancesPrefix(reverie_id) == "b:" \o reverie_id
Prefixes == {BalancesPrefix(r) : r \in ReverieId}

\* #[init] on a contract whose state exists.
AlreadyInitialized(st) ==
  Panic(st, "The contract has already been initialized", FALSE)

PaymentContract_new(st, trusted_account) ==
  IF state_exists(st) THEN AlreadyInitialized(st)
  ELSE Return(Some([greeting |-> "Hello",
                    trusted_account |-> trusted_account,
                    reverie_balances |-> [r \in ReverieId |-> None],
                    reverie_ids |-> <<>>,
                    reverie_metadata |-> [r \in ReverieId |-> None],
                    storage |-> [p \in Prefixes |->
                                   [u \in Accounts |-> None]]]),
              None, <<>>)

\* The condition under which require_reverie_exists does not panic.
require_reverie_exists(c, reverie_id) ==
  ~(\/ c.reverie_metadata[reverie_id] = None
    \/ c.reverie_balances[reverie_id] = None)

NotFound(st, reverie_id) ==
  Panic(st, "ReverieId " \o reverie_id
              \o " not found in registry or balances", FALSE)

\* user_balances.get(&user_id) on the map with the given handle.
balances_get(c, user_balances, user_id) == c.storage[user_balances][user_id]

\* The deposit replacing the stored balance.
deposit_overwrite(st, predecessor, attached_deposit, reverie_id) ==
  IF ~state_exists(st) THEN NotInitialized(st)
  ELSE
    LET c == st[1] IN
    IF c.reverie_metadata[reverie_id] = None
    THEN Panic(st, "ReverieId " \o reverie_id \o " not found in registry",
               FALSE)
    ELSE
      LET user_balances ==
            UnwrapOr(c.reverie_balances[reverie_id],
                     BalancesPrefix(reverie_id))
      IN  Return(Some([c EXCEPT
                         !.storage[user_balances][predecessor] =
                            Some(attached_deposit),
                         !.reverie_balances[reverie_id] =
                            Some(user_balances)]),
                 None, <<>>)

\* u128 addition: a sum reaching 2^128 is outside the balances explored.
deposit(st, predecessor, attached_deposit, reverie_id) ==
  IF ~state_exists(st) THEN NotInitialized(st)
  ELSE
    LET c == st[1] IN
    IF c.reverie_metadata[reverie_id] = None
    THEN Panic(st, "ReverieId " \o reverie_id \o " not found in registry",
               FALSE)
    ELSE
      LET user_id == predecessor
          amount_deposited == attached_deposit
          user_balances ==
            UnwrapOr(c.reverie_balances[reverie_id],
                     BalancesPrefix(reverie_id))
          current_balance ==
            UnwrapOr(balances_get(c, user_balances, user_id), 0)
          new_balance == current_balance + amount_deposited
      IN  Return(Some([c EXCEPT
                         !.storage[user_balances][user_id] =
                            Some(new_balance),
                         !.reverie_balances[reverie_id] =
                            Some(user_balances)]),
                 None, <<>>)

get_balance(st, reverie_id, user_id) ==
  IF ~state_exists(st) THEN NotInitialized(st)
  ELSE
    LET c == st[1] IN
    IF ~require_reverie_exists(c, reverie_id) THEN NotFound(st, reverie_id)
    ELSE Return(st,
                Some(UnwrapOr(balances_get(c, c.reverie_balances[reverie_id][1],
                                           user_id), 0)),
                <<>>)

\* The comparison made strict.
can_spend_strict(st, reverie_id, user_id, amount) ==
  LET balance == get_balance(st, reverie_id, user_id) IN
  IF balance.status = "panic" THEN balance
  ELSE Return(st, Some(balance.ret[1] > amount), <<>>)

can_spend(st, reverie_id, user_id, amount) ==
  LET balance == get_balance(st, reverie_id, user_id) IN
  IF balance.status = "panic" THEN balance
  ELSE Return(st, Some(balance.ret[1] >= amount), <<>>)

\* The contract after self.reverie_balances.remove(reverie_id).
balances_removed(c, reverie_id) ==
  [c EXCEPT !.reverie_balances[reverie_id] = None]

\* The handle returned by get_balances_for_reverie once the reverie is known
\* to exist.
get_balances_for_reverie(c, reverie_id) ==
  UnwrapOr(c.reverie_balances[reverie_id], BalancesPrefix(reverie_id))

\* The tail shared by record_spend and withdraw: store or remove the new
\* balance, then put the map back.
store_balance(c, reverie_id, user_balances, user_id, new_balance) ==
  [balances_removed(c, reverie_id) EXCEPT
     !.storage[user_balances][user_id] =
        IF new_balance = 0 THEN None ELSE Some(new_balance),
     !.reverie_balances[reverie_id] = Some(user_balances)]

\* record_spend without the assertion on the caller.
record_spend_any_caller(st, predecessor, reverie_id, user_id, amount_to_spend) ==
  IF ~state_exists(st) THEN NotInitialized(st)
  ELSE
    LET c == st[1] IN
    IF ~require_reverie_exists(c, reverie_id)
    THEN NotFound(st, reverie_id)
    ELSE
      LET user_balances == get_balances_for_reverie(c, reverie_id)
          current_balance ==
            UnwrapOr(balances_get(c, user_balances, user_id), 0)
      IN
      IF ~(current_balance >= amount_to_spend)
      THEN Panic(st, "Insufficient balance to record spend", FALSE)
      ELSE Return(Some(store_balance(c, reverie_id, user_balances, user_id,
                                     current_balance - amount_to_spend)),
                  None, <<>>)

\* The panic message is the text before the formatted figures.
record_spend(st, predecessor, reverie_id, user_id, amount_to_spend) ==
  IF ~state_exists(st) THEN NotInitialized(st)
  ELSE
    LET c == st[1] IN
    IF predecessor # c.trusted_account
    THEN Panic(st, "Only the trusted account can call this method", FALSE)
    ELSE IF ~require_reverie_exists(c, reverie_id)
    THEN NotFound(st, reverie_id)
    ELSE
      LET user_balances == get_balances_for_reverie(c, reverie_id)
          current_balance ==
            UnwrapOr(balances_get(c, user_balances, user_id), 0)
      IN
      IF ~(current_balance >= amount_to_spend)
      THEN Panic(st, "Insufficient balance to record spend", FALSE)
      ELSE Return(Some(store_balance(c, reverie_id, user_balances, user_id,
                                     current_balance - amount_to_spend)),
                  None, <<>>)

get_trusted_account(st) ==
  IF ~state_exists(st) THEN NotInitialized(st)
  ELSE Return(st, Some(st[1].trusted_account), <<>>)

\* The trusted account allowed to hand over its role.
update_trusted_account_by_trusted(st, predecessor, current_account_id, new_trusted_account) ==
  IF ~state_exists(st) THEN NotInitialized(st)
  ELSE IF predecessor # current_account_id
          /\ predecessor # st[1].trusted_account
  THEN Panic(st, "Only the contract account can update the trusted account",
             FALSE)
  ELSE Return(Some([st[1] EXCEPT !.trusted_account = new_trusted_account]),
              None, <<>>)

update_trusted_account(st, predecessor, current_account_id, new_trusted_account) ==
  IF ~state_exists(st) THEN NotInitialized(st)
  ELSE IF predecessor # current_account_id
  THEN Panic(st, "Only the contract account can update the trusted account",
             FALSE)
  ELSE Return(Some([st[1] EXCEPT !.trusted_account = new_trusted_account]),
              None, <<>>)

\* withdraw without the assertion on the balance: the subtraction is then
\* made on whatever is stored.
withdraw_unchecked(st, predecessor, reverie_id, amount) ==
  IF ~state_exists(st) THEN NotInitialized(st)
  ELSE
    LET c == st[1] IN
    IF ~require_reverie_exists(c, reverie_id) THEN NotFound(st, reverie_id)
    ELSE
      LET user_id == predecessor
          user_balances == get_balances_for_reverie(c, reverie_id)
          current_balance ==
            UnwrapOr(balances_get(c, user_balances, user_id), 0)
      IN
      IF ~(amount > 0)
      THEN Panic(st, "Withdrawal amount must be greater than 0", FALSE)
      ELSE Return(Some(store_balance(c, reverie_id, user_balances, user_id,
                                     current_balance - amount)),
                  None, <<Promise(user_id, <<TransferOp(amount)>>)>>)

\* withdraw accepting an amount of 0.
withdraw_zero_allowed(st, predecessor, reverie_id, amount) ==
  IF ~state_exists(st) THEN NotInitialized(st)
  ELSE
    LET c == st[1] IN
    IF ~require_reverie_exists(c, reverie_id) THEN NotFound(st, reverie_id)
    ELSE
      LET user_id == predecessor
          user_balances == get_balances_for_reverie(c, reverie_id)
          current_balance ==
            UnwrapOr(balances_get(c, user_balances, user_id), 0)
      IN
      IF ~(current_balance >= amount)
      THEN Panic(st, "Insufficient balance to withdraw", FALSE)
      ELSE Return(Some(store_balance(c, reverie_id, user_balances, user_id,
                                     current_balance - amount)),
                  None, <<Promise(user_id, <<TransferOp(amount)>>)>>)

\* withdraw storing the new balance also when it is 0.
withdraw_keeps_zero_entry(st, predecessor, reverie_id, amount) ==
  IF ~state_exists(st) THEN NotInitialized(st)
  ELSE
    LET c == st[1] IN
    IF ~require_reverie_exists(c, reverie_id) THEN NotFound(st, reverie_id)
    ELSE
      LET user_id == predecessor
          user_balances == get_balances_for_reverie(c, reverie_id)
          current_balance ==
            UnwrapOr(balances_get(c, user_balances, user_id), 0)
      IN
      IF ~(amount > 0)
      THEN Panic(st, "Withdrawal amount must be greater than 0", FALSE)
      ELSE IF ~(current_balance >= amount)
      THEN Panic(st, "Insufficient balance to withdraw", FALSE)
      ELSE Return(Some([c EXCEPT
                          !.storage[user_balances][user_id] =
                             Some(current_balance - amount)]),
                  None, <<Promise(user_id, <<TransferOp(amount)>>)>>)

\* withdraw that pays out the whole balance while deducting the amount.
withdraw_pays_balance(st, predecessor, reverie_id, amount) ==
  IF ~state_exists(st) THEN NotInitialized(st)
  ELSE
    LET c == st[1] IN
    IF ~require_reverie_exists(c, reverie_id) THEN NotFound(st, reverie_id)
    ELSE
      LET user_id == predecessor
          user_balances == get_balances_for_reverie(c, reverie_id)
          current_balance ==
            UnwrapOr(balances_get(c, user_balances, user_id), 0)
      IN
      IF ~(amount > 0)
      THEN Panic(st, "Withdrawal amount must be greater than 0", FALSE)
      ELSE IF ~(current_balance >= amount)
      THEN Panic(st, "Insufficient balance to withdraw", FALSE)
      ELSE Return(Some(store_balance(c, reverie_id, user_balances, user_id,
                                     current_balance - amount)),
                  None, <<Promise(user_id, <<TransferOp(current_balance)>>)>>)

\* The panic message is the text before the formatted figures.
withdraw(st, predecessor, reverie_id, amount) ==
  IF ~state_exists(st) THEN NotInitialized(st)
  ELSE
    LET c == st[1] IN
    IF ~require_reverie_exists(c, reverie_id) THEN NotFound(st, reverie_id)
    ELSE
      LET user_id == predecessor
          user_balances == get_balances_for_reverie(c, reverie_id)
          current_balance ==
            UnwrapOr(balances_get(c, user_balances, user_id), 0)
      IN
      IF ~(amount > 0)
      THEN Panic(st, "Withdrawal amount must be greater than 0", FALSE)
      ELSE IF ~(current_balance >= amount)
      THEN Panic(st, "Insufficient balance to withdraw", FALSE)
      ELSE Return(Some(store_balance(c, reverie_id, user_balances, user_id,
                                     current_balance - amount)),
                  None, <<Promise(user_id, <<TransferOp(amount)>>)>>)

\* create_reverie without the two assertions on the id.
create_reverie_overwrite(st, predecessor, reverie_id, metadata) ==
  IF ~state_exists(st) THEN NotInitialized(st)
  ELSE
    LET c == st[1] IN
    IF predecessor # c.trusted_account
    THEN Panic(st, "Only the trusted account can create reveries", FALSE)
    ELSE Return(Some([c EXCEPT
                        !.reverie_ids = Append(@, reverie_id),
                        !.reverie_metadata[reverie_id] = Some(metadata),
                        !.reverie_balances[reverie_id] =
                           Some(BalancesPrefix(reverie_id))]),
                None, <<>>)

create_reverie(st, predecessor, reverie_id, metadata) ==
  IF ~state_exists(st) THEN NotInitialized(st)
  ELSE
    LET c == st[1] IN
    IF predecessor # c.trusted_account
    THEN Panic(st, "Only the trusted account can create reveries", FALSE)
    ELSE IF c.reverie_metadata[reverie_id] # None
    THEN Panic(st, "ReverieId '" \o reverie_id
                     \o "' already exists on reverie_metadata", FALSE)
    ELSE IF c.reverie_balances[reverie_id] # None
    THEN Panic(st, "ReverieId '" \o reverie_id
                     \o "' already exists on reverie_balances", FALSE)
    ELSE Return(Some([c EXCEPT
                        !.reverie_ids = Append(@, reverie_id),
                        !.reverie_metadata[reverie_id] = Some(metadata),
                        !.reverie_balances[reverie_id] =
                           Some(BalancesPrefix(reverie_id))]),
                None, <<>>)

\* self.reverie_ids.iter().position(|id| id == &reverie_id)
position(ids, reverie_id) ==
  IF \E i \in 1 .. Len(ids) : ids[i] = reverie_id
  THEN Some(CHOOSE i \in 1 .. Len(ids) :
              /\ ids[i] = reverie_id
              /\ \A j \in 1 .. (i - 1) : ids[j] # reverie_id)
  ELSE None

\* Vec::remove(index)
remove_at(ids, index) ==
  SubSeq(ids, 1, index - 1) \o SubSeq(ids, index + 1, Len(ids))

\* The inner map's entries stay in storage: only the handle is removed.
delete_reverie_admin(st, predecessor, reverie_id) ==
  IF ~state_exists(st) THEN NotInitialized(st)
  ELSE
    LET c == st[1] IN
    IF predecessor # c.trusted_account
    THEN Panic(st, "Only the trusted account can delete reveries", FALSE)
    ELSE
      LET index == position(c.reverie_ids, reverie_id) IN
      Return(Some([c EXCEPT
                     !.reverie_metadata[reverie_id] = None,
                     !.reverie_balances[reverie_id] = None,
                     !.reverie_ids =
                        IF index = None THEN @ ELSE remove_at(@, index[1])]),
             None, <<>>)

\* The loop of delete_all_reveries over the cloned id list.
RECURSIVE delete_each(_, _, _)
delete_each(st, predecessor, reverie_ids) ==
  IF reverie_ids = <<>> THEN Return(st, None, <<>>)
  ELSE
    LET r == delete_reverie_admin(st, predecessor, Head(reverie_ids)) IN
    IF r.status = "panic" THEN r
    ELSE delete_each(r.st, predecessor, Tail(reverie_ids))

\* The loop stopping after the first reverie.
delete_all_reveries_first_only(st, predecessor) ==
  IF ~state_exists(st) THEN NotInitialized(st)
  ELSE IF predecessor # st[1].trusted_account
  THEN Panic(st, "Only the trusted account can delete all reveries", FALSE)
  ELSE delete_each(st, predecessor,
                   IF st[1].reverie_ids = <<>> THEN <<>>
                   ELSE <<Head(st[1].reverie_ids)>>)

delete_all_reveries(st, predecessor) ==
  IF ~state_exists(st) THEN NotInitialized(st)
  ELSE IF predecessor # st[1].trusted_account
  THEN Panic(st, "Only the trusted account can delete all reveries", FALSE)
  ELSE delete_each(st, predecessor, st[1].reverie_ids)

get_reverie_metadata(st, reverie_id) ==
  IF ~state_exists(st) THEN NotInitialized(st)
  ELSE Return(st, Some(st[1].reverie_metadata[reverie_id]), <<>>)

get_reverie_ids(st) ==
  IF ~state_exists(st) THEN NotInitialized(st)
  ELSE Return(st, Some(st[1].reverie_ids), <<>>)

\* ------------------------------------------------- PaymentContract steps
\* A call to the PaymentContract: method, context and arguments.
PayTx(method, predecessor, attached_deposit, reverie_id, user_id, amount, account_id, metadata) ==
  [method |-> method, predecessor |-> predecessor,
   attached_deposit |-> attached_deposit, reverie_id |-> reverie_id,
   user_id |-> user_id, amount |-> amount, account_id |-> account_id,
   metadata |-> metadata, pre |-> payments]

\* The host commits a call that returned and discards one that panicked.
PayCommit(t, r) ==
  /\ paycall' = t
  /\ payoutcome' = [status |-> r.status, err |-> r.err, ret |-> r.ret]
  /\ payments' = IF r.status = "ok" THEN r.st ELSE payments
  /\ paytransfers' = IF r.status = "ok" THEN r.promises ELSE <<>>
  /\ deposited' =
       IF t.method = "deposit" /\ r.status = "ok"
       THEN deposited \cup {<<t.reverie_id[1], t.predecessor>>}
       ELSE deposited
  /\ UNCHANGED ledger
  /\ UNCHANGED passkeyvars

\* A call is executed once the previous outcome has been returned.
PayIdle == paycall = PayNoCall

\* The deposits explored: up to MaxBalance, by up to MaxDepositors pairs.
DepositExplored(r, reverie_id, user_id) ==
  r.status = "ok"
    => /\ Cardinality(deposited \cup {<<reverie_id, user_id>>})
            <= MaxDepositors
       /\ get_balance(r.st, reverie_id, user_id).status = "ok"
            => get_balance(r.st, reverie_id, user_id).ret[1] <= MaxBalance

CallPaymentNew ==
  /\ PayIdle
  /\ \E t \in Accounts :
       PayCommit(PayTx("new", CurrentAccount, 0, None, None, None, Some(t),
                       None),
                 PaymentContract_new(payments, t))

CallDeposit ==
  /\ PayIdle
  /\ \E p \in Users, n \in Amounts, rid \in ReverieId :
       /\ DepositExplored(deposit(payments, p, n, rid), rid, p)
       /\ PayCommit(PayTx("deposit", p, n, Some(rid), None, None, None, None),
                    deposit(payments, p, n, rid))

CallCanSpend ==
  /\ PayIdle
  /\ \E p \in {CurrentAccount}, rid \in ReverieId, u \in Users,
        n \in SpendAmounts :
       PayCommit(PayTx("can_spend", p, 0, Some(rid), Some(u), Some(n), None,
                       None),
                 can_spend(payments, rid, u, n))

CallRecordSpend ==
  /\ PayIdle
  /\ \E p \in Accounts, rid \in ReverieId, u \in Users,
        n \in SpendAmounts :
       PayCommit(PayTx("record_spend", p, 0, Some(rid), Some(u), Some(n),
                       None, None),
                 record_spend(payments, p, rid, u, n))

CallUpdateTrustedAccount ==
  /\ PayIdle
  /\ \E p \in Accounts, t \in Accounts :
       PayCommit(PayTx("update_trusted_account", p, 0, None, None, None,
                       Some(t), None),
                 update_trusted_account(payments, p, CurrentAccount, t))

CallWithdraw ==
  /\ PayIdle
  /\ \E p \in Users, rid \in ReverieId, n \in SpendAmounts :
       PayCommit(PayTx("withdraw", p, 0, Some(rid), None, Some(n), None,
                       None),
                 withdraw(payments, p, rid, n))

CallCreateReverie ==
  /\ PayIdle
  /\ \E p \in Accounts, rid \in ReverieId, m \in ReverieMetadata :
       PayCommit(PayTx("create_reverie", p, 0, Some(rid), None, None, None,
                       Some(m)),
                 create_reverie(payments, p, rid, m))

CallDeleteAllReveries ==
  /\ PayIdle
  /\ \E p \in Accounts :
       PayCommit(PayTx("delete_all_reveries", p, 0, None, None, None, None,
                       None),
                 delete_all_reveries(payments, p))

CallDeleteReverieAdmin ==
  /\ PayIdle
  /\ \E p \in Accounts, rid \in ReverieId :
       PayCommit(PayTx("delete_reverie_admin", p, 0, Some(rid), None, None,
                       None, None),
                 delete_reverie_admin(payments, p, rid))

\* The outcome of the executed call is returned to the sender and its
\* transfer leaves for its target account.
PayReturnOutcome ==
  /\ paycall # PayNoCall
  /\ paycall' = PayNoCall
  /\ payoutcome' = PayNoOutcome
  /\ paytransfers' = <<>>
  /\ UNCHANGED <<payments, deposited, ledger>>
  /\ UNCHANGED passkeyvars

PayNext ==
  \/ CallPaymentNew
  \/ CallDeposit
  \/ CallCanSpend
  \/ CallRecordSpend
  \/ CallUpdateTrustedAccount
  \/ CallWithdraw
  \/ CallCreateReverie
  \/ CallDeleteAllReveries
  \/ CallDeleteReverieAdmin
  \/ PayReturnOutcome

PaySpec == Init /\ [][PayNext]_vars

\* ------------------------------------------------------------- the ledger
\* The same calls with the amounts they move recorded in ledger.  A call and
\* the return of its outcome are one step here, and the views, which change
\* nothing, are left out.

\* Deposits are explored until a pair has deposited this much in total.
MaxDeposited == MaxBalance
\* The accounts that call, those of them that hold balances, and those that
\* become the trusted account: one that holds balances and one that does
\* not.
LedgerCallers == {0, 1, CurrentAccount}
LedgerUsers == LedgerCallers \ {CurrentAccount}
LedgerTrusted == {1, CurrentAccount}

\* The amount the promises of a call transfer to account user_id.
RECURSIVE Transferred(_, _)
Transferred(promises, user_id) ==
  IF promises = <<>> THEN 0
  ELSE (IF Head(promises).target = user_id
           /\ Head(promises).actions[1].op = "transfer"
        THEN Head(promises).actions[1].amount ELSE 0)
       + Transferred(Tail(promises), user_id)

\* The amount the ledger column f holds for pair e.
Entry(f, e) == IF e \in DOMAIN f THEN f[e] ELSE 0

\* The ledger column f with n added for pair e.
Added(f, e, n) ==
  IF n = 0 THEN f
  ELSE [x \in DOMAIN f \cup {e} |-> IF x = e THEN Entry(f, e) + n ELSE f[x]]

\* The ledger after the returning call t with result r.
Recorded(t, r) ==
  [deposits |->
     IF t.method = "deposit"
     THEN Added(ledger.deposits, <<t.reverie_id[1], t.predecessor>>,
                t.attached_deposit)
     ELSE ledger.deposits,
   withdrawals |->
     IF t.method = "withdraw"
     THEN Added(ledger.withdrawals, <<t.reverie_id[1], t.predecessor>>,
                Transferred(r.promises, t.predecessor))
     ELSE ledger.withdrawals,
   spends |->
     IF t.method = "record_spend"
     THEN Added(ledger.spends, <<t.reverie_id[1], t.user_id[1]>>,
                t.amount[1])
     ELSE ledger.spends,
   removed |->
     ledger.removed
       \cup {id \in ReverieId :
               /\ payments # None
               /\ require_reverie_exists(payments[1], id)
               /\ ~require_reverie_exists(r.st[1], id)}]

\* The host runs call t to its result r.  A panic changes neither the
\* contract nor the ledger, so only a returning call is a step.
LedgerCommit(t, r) ==
  /\ r.status = "ok"
  /\ payments' = r.st
  /\ deposited' =
       IF t.method = "deposit"
       THEN deposited \cup {<<t.reverie_id[1], t.predecessor>>}
       ELSE deposited
  /\ ledger' = Recorded(t, r)
  /\ UNCHANGED <<paycall, payoutcome, paytransfers>>
  /\ UNCHANGED passkeyvars

LedgerNew ==
  \E t \in LedgerTrusted :
    LedgerCommit(PayTx("new", CurrentAccount, 0, None, None, None, Some(t),
                       None),
                 PaymentContract_new(payments, t))

LedgerDeposit ==
  \E p \in LedgerUsers, n \in Amounts, rid \in ReverieId :
    /\ DepositExplored(deposit(payments, p, n, rid), rid, p)
    /\ Entry(ledger.deposits, <<rid, p>>) + n <= MaxDeposited
    /\ LedgerCommit(PayTx("deposit", p, n, Some(rid), None, None, None, None),
                    deposit(payments, p, n, rid))

LedgerRecordSpend ==
  \E p \in LedgerCallers, rid \in ReverieId, u \in LedgerUsers, n \in SpendAmounts :
    LedgerCommit(PayTx("record_spend", p, 0, Some(rid), Some(u), Some(n),
                       None, None),
                 record_spend(payments, p, rid, u, n))

LedgerUpdateTrustedAccount ==
  \E p \in LedgerCallers, t \in LedgerTrusted :
    LedgerCommit(PayTx("update_trusted_account", p, 0, None, None, None,
                       Some(t), None),
                 update_trusted_account(payments, p, CurrentAccount, t))

LedgerWithdraw ==
  \E p \in LedgerUsers, rid \in ReverieId, n \in SpendAmounts :
    LedgerCommit(PayTx("withdraw", p, 0, Some(rid), None, Some(n), None,
                       None),
                 withdraw(payments, p, rid, n))

LedgerCreateReverie ==
  \E p \in LedgerCallers, rid \in ReverieId, m \in {"type1"} :
    LedgerCommit(PayTx("create_reverie", p, 0, Some(rid), None, None, None,
                       Some(m)),
                 create_reverie(payments, p, rid, m))

LedgerDeleteAllReveries ==
  \E p \in LedgerCallers :
    LedgerCommit(PayTx("delete_all_reveries", p, 0, None, None, None, None,
                       None),
                 delete_all_reveries(payments, p))

LedgerDeleteReverieAdmin ==
  \E p \in LedgerCallers, rid \in ReverieId :
    LedgerCommit(PayTx("delete_reverie_admin", p, 0, Some(rid), None, None,
                       None, None),
                 delete_reverie_admin(payments, p, rid))

LedgerNext ==
  \/ LedgerNew
  \/ LedgerDeposit
  \/ LedgerRecordSpend
  \/ LedgerUpdateTrustedAccount
  \/ LedgerWithdraw
  \/ LedgerCreateReverie
  \/ LedgerDeleteAllReveries
  \/ LedgerDeleteReverieAdmin

LedgerSpec == Init /\ [][LedgerNext]_vars

PayTypeOK ==
  /\ \/ payments = None
     \/ /\ Len(payments) = 1
        /\ payments[1] \in
             [greeting : {"Hello"},
              trusted_account : Accounts,
              reverie_balances :
                [ReverieId -> {None} \cup {Some(p) : p \in Prefixes}],
              reverie_ids : Seq(ReverieId),
              reverie_metadata :
                [ReverieId -> {None} \cup {Some(m) : m \in ReverieMetadata}],
              storage :
                [Prefixes ->
                   [Accounts -> {None} \cup
                                  {Some(n) : n \in 0 .. MaxBalance}]]]
  /\ payoutcome.status \in {"none", "ok", "panic"}
  /\ Len(paytransfers) <= 1
  /\ deposited \subseteq ReverieId \X Accounts

\* ---------------------------------------------------------------- claims
\* The call just executed was method m on an initialised contract.
Executed(m) == call.method = m /\ call.pre # None

PreRelayer == call.pre[1].trusted_relayer_account_id
PreOwner == call.pre[1].owner_id
PrePks == call.pre[1].registered_passkey_pks

RelayerOnlyError(m) ==
  CASE m = "add_passkey_pk" -> "Only trusted relayer can add passkey PKs"
    [] m = "remove_passkey_pk" -> "Only trusted relayer can remove passkey PKs"
    [] m = "execute_delegated_actions" ->
         "Only trusted relayer can execute actions"

RelayerOnlyMethods ==
  {"add_passkey_pk", "remove_passkey_pk", "execute_delegated_actions"}

\* C1: add_passkey_pk, remove_passkey_pk and execute_delegated_actions called
\* by an account other than the trusted relayer panic with the method's
\* relayer-only message, leave registry, owner and relayer as they were and
\* schedule no promise.
C1_NonRelayerRejected ==
  \A m \in RelayerOnlyMethods :
    (Executed(m) /\ call.predecessor # PreRelayer)
      => /\ outcome.status = "panic"
         /\ outcome.err = RelayerOnlyError(m)
         /\ contract = call.pre
         /\ scheduled = <<>>

\* A non-relayer submitted a delegated transfer that the relayer could have
\* executed (registered key, complete descriptor).
C1_Witness ==
  /\ Executed("execute_delegated_actions")
  /\ call.predecessor # PreRelayer
  /\ call.passkey_pk[1] \in PrePks
  /\ call.action[1].action_type = "Transfer"
  /\ call.action[1].receiver_id # None
  /\ call.action[1].amount # None
  /\ outcome.status = "panic"

\* C2: set_trusted_relayer called by an account other than the owner panics
\* with "Only owner can set trusted relayer" and leaves relayer, owner and
\* registry unchanged.
C2_NonOwnerRejected ==
  (Executed("set_trusted_relayer") /\ call.predecessor # PreOwner)
    => /\ outcome.status = "panic"
       /\ outcome.err = "Only owner can set trusted relayer"
       /\ contract = call.pre

\* The current relayer (not the owner) tried to name another relayer.
C2_Witness ==
  /\ Executed("set_trusted_relayer")
  /\ call.predecessor # PreOwner
  /\ call.predecessor = PreRelayer
  /\ call.account_id[1] # PreRelayer
  /\ outcome.status = "panic"

\* The fields each kind unwraps with a panic in execute_direct_actions.
DirectRequiredPresent(a) ==
  CASE a.action_type = "CreateAccount" -> a.receiver_id # None
    [] a.action_type = "DeployContract" -> TRUE
    [] a.action_type = "FunctionCall" -> a.receiver_id # None
    [] a.action_type = "Transfer" -> a.receiver_id # None /\ a.amount # None
    [] a.action_type = "Stake" -> a.stake # None /\ a.public_key # None
    [] a.action_type = "AddKey" -> a.public_key # None /\ a.receiver_id # None
    [] a.action_type = "DeleteKey" -> a.public_key # None
    [] a.action_type = "DeleteAccount" -> a.beneficiary_id # None

NotRegisteredError == "ERR_SIGNER_PK_NOT_REGISTERED_AS_PASSKEY"

\* C3 as claimed: execute_direct_actions returns exactly when the signer key
\* is registered, and panics with the not-registered error otherwise.
C3_Original ==
  Executed("execute_direct_actions")
    => /\ (outcome.status = "ok") <=> (call.signer_pk \in PrePks)
       /\ (call.signer_pk \notin PrePks) => outcome.err = NotRegisteredError

\* C3 amended: execute_direct_actions panics with the not-registered error
\* exactly when the signer key is not registered, whoever the calling account
\* is; with a registered signer key it returns exactly when the descriptor
\* carries the fields its kind unwraps, and panics with another message
\* otherwise.
C3_DirectSucceedsIffRegisteredAndComplete ==
  Executed("execute_direct_actions")
    => /\ (outcome.err = NotRegisteredError) <=> (call.signer_pk \notin PrePks)
       /\ (outcome.status = "ok")
            <=> (call.signer_pk \in PrePks
                 /\ DirectRequiredPresent(call.action[1]))

\* A registered signer, calling through an account that is neither the
\* signer nor the relayer, was accepted.
C3_Witness ==
  /\ Executed("execute_direct_actions")
  /\ call.signer_pk \in PrePks
  /\ call.predecessor # call.signer
  /\ call.predecessor # PreRelayer
  /\ outcome.status = "ok"

\* C4: with an unregistered signer key execute_direct_actions panics with the
\* not-registered error for every descriptor, also one lacking required
\* fields, and schedules nothing.
C4_UnregisteredSignerRejectedFirst ==
  (Executed("execute_direct_actions") /\ call.signer_pk \notin PrePks)
    => /\ outcome.status = "panic"
       /\ outcome.err = NotRegisteredError
       /\ ~outcome.created
       /\ scheduled = <<>>

\* An unregistered signer sent a Transfer without target and amount.
C4_Witness ==
  /\ Executed("execute_direct_actions")
  /\ call.signer_pk \notin PrePks
  /\ call.action[1].action_type = "Transfer"
  /\ call.action[1].receiver_id = None
  /\ call.action[1].amount = None
  /\ outcome.err = NotRegisteredError

\* C5: execute_delegated_actions returns only for the relayer with a
\* registered key; the relayer with an unregistered key gets "Passkey PK not
\* registered" and nothing scheduled; a non-relayer with an unregistered key
\* gets the relayer-only error.
C5_DelegatedNeedsRelayerAndKey ==
  Executed("execute_delegated_actions")
    => /\ (outcome.status = "ok")
            => (call.predecessor = PreRelayer /\ call.passkey_pk[1] \in PrePks)
       /\ (call.predecessor = PreRelayer /\ call.passkey_pk[1] \notin PrePks)
            => /\ outcome.status = "panic"
               /\ outcome.err = "Passkey PK not registered"
               /\ scheduled = <<>>
       /\ (call.predecessor # PreRelayer /\ call.passkey_pk[1] \notin PrePks)
            => /\ outcome.status = "panic"
               /\ outcome.err = "Only trusted relayer can execute actions"

\* Both conditions failed at once.
C5_Witness ==
  /\ Executed("execute_delegated_actions")
  /\ call.predecessor # PreRelayer
  /\ call.passkey_pk[1] \notin PrePks
  /\ outcome.err = "Only trusted relayer can execute actions"

\* C6: right after a successful add_passkey_pk(k) the key k is registered,
\* right after a successful remove_passkey_pk(k) it is not, and the
\* membership of every other key is as before the call.
C6_AddRemoveMembership ==
  /\ (Executed("add_passkey_pk") /\ outcome.status = "ok")
       => /\ is_passkey_pk_registered(contract, call.passkey_pk[1])
          /\ \A j \in Keys \ {call.passkey_pk[1]} :
               is_passkey_pk_registered(contract, j) <=> (j \in PrePks)
  /\ (Executed("remove_passkey_pk") /\ outcome.status = "ok")
       => /\ ~is_passkey_pk_registered(contract, call.passkey_pk[1])
          /\ \A j \in Keys \ {call.passkey_pk[1]} :
               is_passkey_pk_registered(contract, j) <=> (j \in PrePks)

\* A registered key was removed while another key stayed registered.
C6_Witness ==
  /\ Executed("remove_passkey_pk")
  /\ outcome.status = "ok"
  /\ call.passkey_pk[1] \in PrePks
  /\ \E j \in Keys \ {call.passkey_pk[1]} :
       j \in PrePks /\ is_passkey_pk_registered(contract, j)

\* C7: add_passkey_pk(k) returns true exactly when k was not registered and
\* leaves the registry unchanged when it returns false; remove_passkey_pk(k)
\* returns true exactly when k was registered and leaves the registry
\* unchanged when it returns false.
C7_AddRemoveReturnValue ==
  /\ (Executed("add_passkey_pk") /\ outcome.status = "ok")
       => /\ outcome.ret = Some(call.passkey_pk[1] \notin PrePks)
          /\ (outcome.ret = Some(FALSE)) => contract = call.pre
  /\ (Executed("remove_passkey_pk") /\ outcome.status = "ok")
       => /\ outcome.ret = Some(call.passkey_pk[1] \in PrePks)
          /\ (outcome.ret = Some(FALSE)) => contract = call.pre

\* A key that was already registered was added again: the call returned
\* false.
C7_Witness ==
  /\ Executed("add_passkey_pk")
  /\ call.passkey_pk[1] \in PrePks
  /\ outcome.status = "ok"
  /\ outcome.ret = Some(FALSE)

\* The keys occurring in an optional key list.
Occurring(keys) ==
  IF keys = None THEN {}
  ELSE {keys[1][i] : i \in 1 .. Len(keys[1])}

\* C8: after new(R, O, L) the relayer is R, the owner is O and a key is
\* registered exactly when it occurs in L (none when L is absent).
C8_InitSeedsState ==
  (call.method = "new" /\ outcome.status = "ok")
    => /\ get_trusted_relayer(contract) = call.account_id[1]
       /\ get_owner_id(contract) = call.owner_id[1]
       /\ \A k \in Keys :
            is_passkey_pk_registered(contract, k) <=> k \in Occurring(call.keys)

\* Initialisation with a list that holds the same key twice, under a relayer
\* different from the owner.
C8_Witness ==
  /\ call.method = "new"
  /\ outcome.status = "ok"
  /\ call.keys # None
  /\ Len(call.keys[1]) = 2
  /\ call.keys[1][1] = call.keys[1][2]
  /\ call.account_id[1] # call.owner_id[1]
  /\ \E k \in Keys : ~is_passkey_pk_registered(contract, k)

\* C9: new called when the contract state exists panics with "Already
\* initialized" and leaves owner, relayer and registry as they were.
C9_InitOnce ==
  Executed("new")
    => /\ outcome.status = "panic"
       /\ outcome.err = "Already initialized"
       /\ contract = call.pre

\* A second initialisation that names a different owner.
C9_Witness ==
  /\ Executed("new")
  /\ call.owner_id[1] # PreOwner
  /\ outcome.status = "panic"

\* C10: the relayer's execute_delegated_actions with a registered key and a
\* Transfer descriptor with target X and amount N returns, schedules exactly
\* one promise on X holding one transfer of N, and leaves registry, owner and
\* relayer unchanged.
C10_DelegatedTransfer ==
  (/\ Executed("execute_delegated_actions")
   /\ call.predecessor = PreRelayer
   /\ call.passkey_pk[1] \in PrePks
   /\ call.action[1].action_type = "Transfer"
   /\ call.action[1].receiver_id # None
   /\ call.action[1].amount # None)
    => /\ outcome.status = "ok"
       /\ scheduled = <<[target |-> call.action[1].receiver_id[1],
                         actions |-> <<[op |-> "transfer",
                                        amount |-> call.action[1].amount[1]]>>]>>
       /\ contract = call.pre

\* The relayer transferred a positive amount to an account other than the
\* contract's own.
C10_Witness ==
  /\ Executed("execute_delegated_actions")
  /\ call.action[1].action_type = "Transfer"
  /\ call.action[1].receiver_id # None
  /\ call.action[1].receiver_id[1] # CurrentAccount
  /\ call.action[1].amount # None
  /\ call.action[1].amount[1] > 0
  /\ outcome.status = "ok"

\* The call just executed passed the authorisation checks of its method.
DirectAuthorised ==
  Executed("execute_direct_actions") /\ call.signer_pk \in PrePks

DelegatedAuthorised ==
  /\ Executed("execute_delegated_actions")
  /\ call.predecessor = PreRelayer
  /\ call.passkey_pk[1] \in PrePks

MissingTargetError == "receiver_id is required for FunctionCall/Transfer"

\* C11: in both execute methods an authorised call with a Transfer or
\* FunctionCall descriptor without receiver_id panics with the
\* receiver_id-required message before Promise::new is reached, and
\* schedules nothing.
C11_MissingTargetRejectedBeforePromise ==
  ((DirectAuthorised \/ DelegatedAuthorised)
   /\ call.action[1].action_type \in {"FunctionCall", "Transfer"}
   /\ call.action[1].receiver_id = None)
    => /\ outcome.status = "panic"
       /\ outcome.err = MissingTargetError
       /\ ~outcome.created
       /\ scheduled = <<>>

\* A registered signer sent a FunctionCall that lacks only its target.
C11_Witness ==
  /\ DirectAuthorised
  /\ call.action[1].action_type = "FunctionCall"
  /\ call.action[1].receiver_id = None
  /\ call.action[1].method_name # None
  /\ call.action[1].args # None
  /\ outcome.err = MissingTargetError

\* The fields the specification's table requires for each kind.
SpecRequiredPresent(a) ==
  CASE a.action_type = "CreateAccount" -> a.receiver_id # None
    [] a.action_type = "DeployContract" -> a.code # None
    [] a.action_type = "FunctionCall" ->
         a.receiver_id # None /\ a.method_name # None /\ a.args # None
    [] a.action_type = "Transfer" -> a.receiver_id # None /\ a.amount # None
    [] a.action_type = "Stake" -> a.public_key # None /\ a.stake # None
    [] a.action_type = "AddKey" -> a.public_key # None /\ a.receiver_id # None
    [] a.action_type = "DeleteKey" -> a.public_key # None
    [] a.action_type = "DeleteAccount" -> a.beneficiary_id # None

\* C12: for every kind and both execute methods, an authorised call whose
\* descriptor lacks a field the kind requires (code bytes for DeployContract,
\* method name and argument bytes for FunctionCall included) panics and
\* schedules nothing.
C12_MissingFieldRejected ==
  ((DirectAuthorised \/ DelegatedAuthorised)
   /\ ~SpecRequiredPresent(call.action[1]))
    => /\ outcome.status = "panic"
       /\ scheduled = <<>>

\* C13: the allowance of the key an AddKey call schedules is Unlimited when
\* the allowance field is absent or 0 and Limited(N) when it holds N > 0; an
\* authorised AddKey with key and target present always returns.
C13_AllowanceComputation ==
  ((DirectAuthorised \/ DelegatedAuthorised)
   /\ call.action[1].action_type = "AddKey"
   /\ call.action[1].public_key # None
   /\ call.action[1].receiver_id # None)
    => /\ outcome.status = "ok"
       /\ Len(scheduled) = 1
       /\ Len(scheduled[1].actions) = 1
       /\ scheduled[1].actions[1].allowance =
            IF call.action[1].allowance = None
               \/ call.action[1].allowance[1] = 0
            THEN <<"Unlimited">>
            ELSE <<"Limited", call.action[1].allowance[1]>>

\* An AddKey with allowance 0 was scheduled with an unlimited allowance.
C13_Witness ==
  /\ DelegatedAuthorised
  /\ call.action[1].action_type = "AddKey"
  /\ call.action[1].allowance = Some(0)
  /\ outcome.status = "ok"
  /\ scheduled[1].actions[1].allowance = <<"Unlimited">>

\* C14: a successful execute_delegated_actions schedules its promise on the
\* descriptor's receiver_id for FunctionCall, Transfer and CreateAccount, and
\* on the contract's own account for the other five kinds, whatever their
\* receiver_id holds.
C14_DelegatedTarget ==
  (Executed("execute_delegated_actions") /\ outcome.status = "ok")
    => /\ Len(scheduled) = 1
       /\ scheduled[1].target =
            IF call.action[1].action_type
                 \in {"FunctionCall", "Transfer", "CreateAccount"}
            THEN call.action[1].receiver_id[1]
            ELSE CurrentAccount

\* A delegated DeployContract naming another account as receiver_id was
\* scheduled on the contract's own account.
C14_Witness ==
  /\ Executed("execute_delegated_actions")
  /\ outcome.status = "ok"
  /\ call.action[1].action_type = "DeployContract"
  /\ call.action[1].receiver_id # None
  /\ call.action[1].receiver_id[1] # CurrentAccount
  /\ scheduled[1].target = CurrentAccount

\* C15: a successful execute_direct_actions schedules its promise on the
\* descriptor's receiver_id for FunctionCall and Transfer and on the
\* signer's account for every other kind; so the contract's own account or
\* the calling account is the target only when it is the signer or the
\* descriptor's receiver_id.
C15_DirectTarget ==
  (Executed("execute_direct_actions") /\ outcome.status = "ok")
    => /\ Len(scheduled) = 1
       /\ scheduled[1].target =
            IF call.action[1].action_type \in {"FunctionCall", "Transfer"}
            THEN call.action[1].receiver_id[1]
            ELSE call.signer
       /\ (scheduled[1].target \in {CurrentAccount, call.predecessor})
            => \/ scheduled[1].target = call.signer
               \/ call.action[1].receiver_id = Some(scheduled[1].target)

\* A direct CreateAccount whose signer is neither the caller, nor the
\* contract, nor the new account, was scheduled on the signer's account.
C15_Witness ==
  /\ Executed("execute_direct_actions")
  /\ outcome.status = "ok"
  /\ call.action[1].action_type = "CreateAccount"
  /\ call.signer # call.predecessor
  /\ call.signer # CurrentAccount
  /\ call.action[1].receiver_id # Some(call.signer)
  /\ scheduled[1].target = call.signer

\* The relayer passed a registered key and a list of descriptors.
DelegatedListAuthorised ==
  /\ Executed("execute_delegated_actions(list)")
  /\ call.predecessor = PreRelayer
  /\ call.passkey_pk[1] \in PrePks

\* C16: the relayer's delegated call with a list of descriptors dispatches
\* each descriptor in order (one promise per descriptor, on its target) when
\* all of them are valid, and aborts with nothing scheduled when one is not.
C16_DelegatedListDispatched ==
  DelegatedListAuthorised
    => IF \A i \in 1 .. Len(call.action[1]) :
            SpecRequiredPresent(call.action[1][i])
       THEN /\ outcome.status = "ok"
            /\ Len(scheduled) = Len(call.action[1])
            /\ \A i \in 1 .. Len(call.action[1]) :
                 scheduled[i].target = call.action[1][i].receiver_id[1]
       ELSE /\ outcome.status = "panic"
            /\ scheduled = <<>>

\* The call just executed met one of the failure conditions of its method:
\* wrong caller, unregistered key, a missing field the method unwraps, or a
\* second initialisation.
FailureDetected ==
  \/ Executed("new")
  \/ Executed("set_trusted_relayer") /\ call.predecessor # PreOwner
  \/ Executed("add_passkey_pk") /\ call.predecessor # PreRelayer
  \/ Executed("remove_passkey_pk") /\ call.predecessor # PreRelayer
  \/ /\ Executed("execute_delegated_actions")
     /\ \/ call.predecessor # PreRelayer
        \/ call.passkey_pk[1] \notin PrePks
        \/ ~DirectRequiredPresent(call.action[1])
  \/ /\ Executed("execute_direct_actions")
     /\ \/ call.signer_pk \notin PrePks
        \/ ~DirectRequiredPresent(call.action[1])

\* C17: for every entry point, a call that meets a failure condition panics,
\* and a call that panics leaves registry, owner and relayer as they were
\* and schedules nothing, also when the panic comes after Promise::new.
C17_AllOrNothing ==
  /\ FailureDetected => outcome.status = "panic"
  /\ (outcome.status = "panic") => (contract = call.pre /\ scheduled = <<>>)

\* A delegated Transfer with a target but no amount panicked after the
\* promise for the target had been created.
C17_Witness ==
  /\ DelegatedAuthorised
  /\ call.action[1].action_type = "Transfer"
  /\ call.action[1].receiver_id # None
  /\ call.action[1].amount = None
  /\ outcome.status = "panic"
  /\ outcome.created
  /\ scheduled = <<>>

\* C18: once initialised, no step changes owner_id (which new set to its
\* owner argument), and the trusted relayer changes only in a
\* set_trusted_relayer call that was made by the owner and returned.
C18_OwnerFixedRelayerSetByOwner ==
  /\ []((call.method = "new" /\ outcome.status = "ok")
          => contract[1].owner_id = call.owner_id[1])
  /\ [][contract # None
          => /\ contract' # None
             /\ contract'[1].owner_id = contract[1].owner_id
             /\ (contract'[1].trusted_relayer_account_id
                   # contract[1].trusted_relayer_account_id)
                  => /\ tx # None
                     /\ tx[1].method = "set_trusted_relayer"
                     /\ tx[1].predecessor = contract[1].owner_id
                     /\ outcome'.status = "ok"]_vars

\* The owner replaced the relayer by an account that is neither the owner
\* nor the previous relayer; the owner is still the owner.
C18_Witness ==
  /\ Executed("set_trusted_relayer")
  /\ outcome.status = "ok"
  /\ contract[1].trusted_relayer_account_id # PreRelayer
  /\ contract[1].trusted_relayer_account_id # PreOwner
  /\ contract[1].owner_id = PreOwner

\* C19: once initialised, the registry changes only in an add_passkey_pk or
\* remove_passkey_pk call that was made by the relayer of that moment and
\* returned.
C19_RegistryChangedByRelayerOnly ==
  [][(contract # None /\ contract' # None
      /\ contract'[1].registered_passkey_pks
           # contract[1].registered_passkey_pks)
       => /\ tx # None
          /\ tx[1].method \in {"add_passkey_pk", "remove_passkey_pk"}
          /\ tx[1].predecessor = contract[1].trusted_relayer_account_id
          /\ outcome'.status = "ok"]_vars

\* A relayer who is not the owner added a key that was not registered.
C19_Witness ==
  /\ Executed("add_passkey_pk")
  /\ outcome.status = "ok"
  /\ PreRelayer # PreOwner
  /\ call.passkey_pk[1] \notin PrePks
  /\ contract[1].registered_passkey_pks # PrePks

\* C20: set_trusted_relayer(X) called by the owner returns and makes
\* get_trusted_relayer X, for every X (the current relayer, the owner and
\* the contract's own account included); owner and registry are unchanged.
C20_OwnerSetsAnyRelayer ==
  (Executed("set_trusted_relayer") /\ call.predecessor = PreOwner)
    => /\ outcome.status = "ok"
       /\ get_trusted_relayer(contract) = call.account_id[1]
       /\ get_owner_id(contract) = PreOwner
       /\ contract[1].registered_passkey_pks = PrePks

\* The owner named the account that already was the relayer, with a
\* non-empty registry.
C20_Witness ==
  /\ Executed("set_trusted_relayer")
  /\ call.predecessor = PreOwner
  /\ call.account_id[1] = PreRelayer
  /\ PreRelayer # PreOwner
  /\ PrePks # {}
  /\ outcome.status = "ok"

\* ------------------------------------------------- PaymentContract claims
\* The call just executed was method m on an initialised PaymentContract.
PayExecuted(m) == paycall.method = m /\ paycall.pre # None

PreTrusted == paycall.pre[1].trusted_account

\* The reverie exists in state st: get_balance answers for it.
ReverieExists(st, reverie_id) ==
  /\ st # None
  /\ require_reverie_exists(st[1], reverie_id)

\* What get_balance reports: its status and return value.
Reported(st, reverie_id, user_id) ==
  <<get_balance(st, reverie_id, user_id).status,
    get_balance(st, reverie_id, user_id).ret>>

\* The balance get_balance returns for an existing reverie.
Balance(st, reverie_id, user_id) == get_balance(st, reverie_id, user_id).ret[1]

\* Every balance but that of (reverie_id, user_id) is reported as before the
\* call.
OthersUnchanged(reverie_id, user_id) ==
  \A r \in ReverieId, u \in Accounts :
    <<r, u>> # <<reverie_id, user_id>>
      => Reported(payments, r, u) = Reported(paycall.pre, r, u)

\* C21: a successful deposit by user u to an existing reverie r with attached
\* amount a makes get_balance(r, u) its previous value plus a and leaves every
\* other balance as it was; and get_balance of a user who never deposited to
\* an existing reverie is 0 (asked whenever no call is in progress: every
\* state a call leaves behind is there when its outcome has been returned).
C21_DepositAccumulates ==
  /\ (/\ PayExecuted("deposit")
      /\ payoutcome.status = "ok"
      /\ ReverieExists(paycall.pre, paycall.reverie_id[1]))
       => /\ Reported(payments, paycall.reverie_id[1], paycall.predecessor)
               = <<"ok", Some(Balance(paycall.pre, paycall.reverie_id[1],
                                      paycall.predecessor)
                              + paycall.attached_deposit)>>
          /\ OthersUnchanged(paycall.reverie_id[1], paycall.predecessor)
  /\ PayIdle
       => \A r \in ReverieId :
            ReverieExists(payments, r)
              => \A u \in Accounts :
                   <<r, u>> \notin deposited
                     => get_balance(payments, r, u).ret = Some(0)

\* A second positive deposit was added to a positive balance while another
\* user held a balance in the same reverie.
C21_Witness ==
  /\ PayExecuted("deposit")
  /\ payoutcome.status = "ok"
  /\ paycall.attached_deposit > 0
  /\ ReverieExists(paycall.pre, paycall.reverie_id[1])
  /\ Balance(paycall.pre, paycall.reverie_id[1], paycall.predecessor) > 0
  /\ \E u \in Accounts \ {paycall.predecessor} :
       Balance(payments, paycall.reverie_id[1], u) > 0

\* C22: record_spend called by an account other than the trusted account
\* panics with 'Only the trusted account can call this method' and changes
\* nothing; called by the trusted account for an existing reverie with an
\* amount s not above the user's balance, it lowers that balance by s and no
\* other.
C22_RecordSpendTrustedOnly ==
  /\ (PayExecuted("record_spend") /\ paycall.predecessor # PreTrusted)
       => /\ payoutcome.status = "panic"
          /\ payoutcome.err = "Only the trusted account can call this method"
          /\ payments = paycall.pre
  /\ (/\ PayExecuted("record_spend")
      /\ paycall.predecessor = PreTrusted
      /\ ReverieExists(paycall.pre, paycall.reverie_id[1])
      /\ paycall.amount[1] <= Balance(paycall.pre, paycall.reverie_id[1],
                                      paycall.user_id[1]))
       => /\ payoutcome.status = "ok"
          /\ Reported(payments, paycall.reverie_id[1], paycall.user_id[1])
               = <<"ok", Some(Balance(paycall.pre, paycall.reverie_id[1],
                                      paycall.user_id[1])
                              - paycall.amount[1])>>
          /\ OthersUnchanged(paycall.reverie_id[1], paycall.user_id[1])

\* The trusted account recorded a positive spend, less than the balance,
\* while another user held a balance in the same reverie.
C22_Witness ==
  /\ PayExecuted("record_spend")
  /\ payoutcome.status = "ok"
  /\ paycall.amount[1] > 0
  /\ Balance(payments, paycall.reverie_id[1], paycall.user_id[1]) > 0
  /\ \E u \in Accounts \ {paycall.user_id[1]} :
       Balance(payments, paycall.reverie_id[1], u) > 0

\* The balances stored in state st.
StoredBalances(st) ==
  UNION {{st[1].storage[p][u][1] :
            u \in {v \in Accounts : st[1].storage[p][v] # None}} :
         p \in Prefixes}

\* C23: record_spend (by the trusted account) and withdraw with an amount
\* above the user's balance in an existing reverie panic with an
\* insufficient-balance error and leave the state as it was; and every
\* stored balance is at least 0 in every reachable state.
C23_NoUnderflow ==
  /\ (/\ PayExecuted("record_spend")
      /\ paycall.predecessor = PreTrusted
      /\ ReverieExists(paycall.pre, paycall.reverie_id[1])
      /\ paycall.amount[1] > Balance(paycall.pre, paycall.reverie_id[1],
                                     paycall.user_id[1]))
       => /\ payoutcome.status = "panic"
          /\ payoutcome.err = "Insufficient balance to record spend"
          /\ payments = paycall.pre
  /\ (/\ PayExecuted("withdraw")
      /\ ReverieExists(paycall.pre, paycall.reverie_id[1])
      /\ paycall.amount[1] > Balance(paycall.pre, paycall.reverie_id[1],
                                     paycall.predecessor))
       => /\ payoutcome.status = "panic"
          /\ payoutcome.err = "Insufficient balance to withdraw"
          /\ payments = paycall.pre
          /\ paytransfers = <<>>
  /\ payments # None => \A b \in StoredBalances(payments) : b >= 0

\* A user holding a positive balance asked for more than that balance.
C23_Witness ==
  /\ PayExecuted("withdraw")
  /\ ReverieExists(paycall.pre, paycall.reverie_id[1])
  /\ Balance(paycall.pre, paycall.reverie_id[1], paycall.predecessor) > 0
  /\ paycall.amount[1] > Balance(paycall.pre, paycall.reverie_id[1],
                                 paycall.predecessor)
  /\ payoutcome.status = "panic"

\* C24: withdraw(r, a) by user u on an existing reverie panics with
\* 'Withdrawal amount must be greater than 0' when a = 0; when
\* 0 < a <= balance(r, u) it lowers balance(r, u) by a and schedules one
\* promise, a single transfer of a to u.
C24_WithdrawPaysCaller ==
  /\ (/\ PayExecuted("withdraw")
      /\ ReverieExists(paycall.pre, paycall.reverie_id[1])
      /\ paycall.amount[1] = 0)
       => /\ payoutcome.status = "panic"
          /\ payoutcome.err = "Withdrawal amount must be greater than 0"
  /\ (/\ PayExecuted("withdraw")
      /\ ReverieExists(paycall.pre, paycall.reverie_id[1])
      /\ 0 < paycall.amount[1]
      /\ paycall.amount[1] <= Balance(paycall.pre, paycall.reverie_id[1],
                                      paycall.predecessor))
       => /\ payoutcome.status = "ok"
          /\ Reported(payments, paycall.reverie_id[1], paycall.predecessor)
               = <<"ok", Some(Balance(paycall.pre, paycall.reverie_id[1],
                                      paycall.predecessor)
                              - paycall.amount[1])>>
          /\ paytransfers
               = <<Promise(paycall.predecessor,
                           <<TransferOp(paycall.amount[1])>>)>>

\* A user other than the trusted account and the contract account withdrew
\* part of a balance.
C24_Witness ==
  /\ PayExecuted("withdraw")
  /\ payoutcome.status = "ok"
  /\ paycall.predecessor \notin {PreTrusted, CurrentAccount}
  /\ Balance(payments, paycall.reverie_id[1], paycall.predecessor) > 0
  /\ Len(paytransfers) = 1

\* The user whose balance a withdraw or record_spend call is about.
SpentBy ==
  IF paycall.method = "withdraw" THEN paycall.predecessor
  ELSE paycall.user_id[1]

\* C25: when a successful withdraw or record_spend takes the whole balance of
\* a user in a reverie, the user's entry is no longer in that reverie's
\* balance map and get_balance reports 0 for the user.
C25_ZeroBalanceEntryRemoved ==
  (/\ PayExecuted("withdraw") \/ PayExecuted("record_spend")
   /\ payoutcome.status = "ok"
   /\ paycall.amount[1] = Balance(paycall.pre, paycall.reverie_id[1], SpentBy))
    => /\ balances_get(payments[1],
                       payments[1].reverie_balances[paycall.reverie_id[1]][1],
                       SpentBy) = None
       /\ Reported(payments, paycall.reverie_id[1], SpentBy)
            = <<"ok", Some(0)>>

\* A user withdrew the whole of a positive balance.
C25_Witness ==
  /\ PayExecuted("withdraw")
  /\ payoutcome.status = "ok"
  /\ paycall.amount[1] > 0
  /\ paycall.amount[1] = Balance(paycall.pre, paycall.reverie_id[1],
                                 paycall.predecessor)

\* C26: for an existing reverie r, can_spend(r, u, a) returns true exactly
\* when get_balance(r, u) >= a, and changes no state.
C26_CanSpendIffCovered ==
  (/\ PayExecuted("can_spend")
   /\ ReverieExists(paycall.pre, paycall.reverie_id[1]))
    => /\ payoutcome.status = "ok"
       /\ payoutcome.ret
            = Some(Balance(paycall.pre, paycall.reverie_id[1],
                           paycall.user_id[1]) >= paycall.amount[1])
       /\ payments = paycall.pre
       /\ paytransfers = <<>>

\* A user without a deposit was refused a positive amount.
C26_Witness ==
  /\ PayExecuted("can_spend")
  /\ ReverieExists(paycall.pre, paycall.reverie_id[1])
  /\ <<paycall.reverie_id[1], paycall.user_id[1]>> \notin deposited
  /\ paycall.amount[1] > 0
  /\ payoutcome.ret = Some(FALSE)

\* How often an id occurs in reverie_ids.
Occurrences(st, reverie_id) ==
  Cardinality({i \in 1 .. Len(st[1].reverie_ids) :
                 st[1].reverie_ids[i] = reverie_id})

C28_DeleteAllRemovesAll ==
  /\ (PayExecuted("delete_all_reveries") /\ paycall.predecessor = PreTrusted)
       => /\ payoutcome.status = "ok"
          /\ get_reverie_ids(payments).ret = Some(<<>>)
          /\ \A r \in ReverieId :
               /\ get_reverie_metadata(payments, r).ret = Some(None)
               /\ payments[1].reverie_balances[r] = None
  /\ (PayExecuted("delete_all_reveries") /\ paycall.predecessor # PreTrusted)
       => /\ payoutcome.status = "panic"
          /\ payoutcome.err
               = "Only the trusted account can delete all reveries"
          /\ payments = paycall.pre

\* Every reverie id was in use when the trusted account deleted all.
C28_Witness ==
  /\ PayExecuted("delete_all_reveries")
  /\ payoutcome.status = "ok"
  /\ Len(paycall.pre[1].reverie_ids) = Cardinality(ReverieId)

\* C29: update_trusted_account succeeds exactly when the caller is the
\* contract's own account; get_trusted_account then returns the new account
\* and the previous trusted account, if another one, is refused by
\* record_spend and create_reverie; a call by any other account panics and
\* leaves the trusted account as it was.
C29_TrustedAccountRotation ==
  /\ (PayExecuted("update_trusted_account")
        /\ paycall.predecessor = CurrentAccount)
       => /\ payoutcome.status = "ok"
          /\ get_trusted_account(payments).ret = paycall.account_id
          /\ PreTrusted # paycall.account_id[1]
               => /\ \A r \in ReverieId, u \in Accounts, n \in SpendAmounts :
                       record_spend(payments, PreTrusted, r, u, n).err
                         = "Only the trusted account can call this method"
                  /\ \A r \in ReverieId, m \in ReverieMetadata :
                       create_reverie(payments, PreTrusted, r, m).err
                         = "Only the trusted account can create reveries"
  /\ (PayExecuted("update_trusted_account")
        /\ paycall.predecessor # CurrentAccount)
       => /\ payoutcome.status = "panic"
          /\ payoutcome.err
               = "Only the contract account can update the trusted account"
          /\ payments = paycall.pre

\* The trusted account, not being the contract account, tried to name a
\* successor.
C29_Witness ==
  /\ PayExecuted("update_trusted_account")
  /\ paycall.predecessor = PreTrusted
  /\ paycall.predecessor # CurrentAccount
  /\ paycall.account_id[1] # PreTrusted
  /\ payoutcome.status = "panic"

\* C30: a successful CreateAccount dispatch, through either entry point,
\* schedules one promise whose operations are, in this order: create-account;
\* a transfer of the initial deposit exactly when that field is present and
\* greater than 0; an add-full-access-key exactly when a key for the new
\* account is present.
C30_CreateAccountSequence ==
  (/\ Executed("execute_direct_actions")
        \/ Executed("execute_delegated_actions")
   /\ outcome.status = "ok"
   /\ call.action[1].action_type = "CreateAccount")
    => /\ Len(scheduled) = 1
       /\ LET a == call.action[1]
              ops == scheduled[1].actions
              funded == /\ a.initial_deposit_for_new_account # None
                        /\ a.initial_deposit_for_new_account[1] > 0
              keyed == a.public_key_for_new_account # None
              n == 1 + (IF funded THEN 1 ELSE 0) + (IF keyed THEN 1 ELSE 0)
          IN /\ Len(ops) = n
             /\ ops[1] = CreateAccountOp
             /\ funded
                  => ops[2] = TransferOp(a.initial_deposit_for_new_account[1])
             /\ keyed
                  => ops[n] = AddFullAccessKeyOp(a.public_key_for_new_account[1])

\* A new account was created with a positive initial deposit and a key:
\* three operations on one promise.
C30_Witness ==
  /\ Executed("execute_direct_actions")
  /\ outcome.status = "ok"
  /\ call.action[1].action_type = "CreateAccount"
  /\ call.action[1].initial_deposit_for_new_account = Some(MaxAmount)
  /\ call.action[1].public_key_for_new_account # None
  /\ Len(scheduled) = 1
  /\ Len(scheduled[1].actions) = 3

\* An execute call of either entry point returned for a descriptor of kind t.
Dispatched(t) ==
  /\ Executed("execute_direct_actions")
       \/ Executed("execute_delegated_actions")
  /\ outcome.status = "ok"
  /\ call.action[1].action_type = t

\* C31: in both entry points, a FunctionCall descriptor without deposit is
\* dispatched with deposit 0 and one without gas is dispatched with gas 0.
C31_FunctionCallDefaults ==
  Dispatched("FunctionCall")
    => /\ Len(scheduled) = 1
       /\ Len(scheduled[1].actions) = 1
       /\ call.action[1].deposit = None
            => scheduled[1].actions[1].deposit = 0
       /\ call.action[1].gas = None
            => scheduled[1].actions[1].gas = 0

\* C32: in both entry points an authorised Transfer whose amount is absent
\* or 0 panics and schedules no transfer, and a Transfer that returns
\* carries a present amount greater than 0.
C32_TransferAmountPositive ==
  /\ ((DirectAuthorised \/ DelegatedAuthorised)
      /\ call.action[1].action_type = "Transfer"
      /\ (call.action[1].amount = None \/ call.action[1].amount = Some(0)))
       => /\ outcome.status = "panic"
          /\ scheduled = <<>>
  /\ Dispatched("Transfer")
       => /\ call.action[1].amount # None
          /\ call.action[1].amount[1] > 0

\* The descriptor a with every field its kind does not read made absent.
OwnFields(a) ==
  LET e == EmptyAction(a.action_type)
  IN CASE a.action_type = "CreateAccount" ->
            [e EXCEPT !.receiver_id = a.receiver_id,
                      !.initial_deposit_for_new_account =
                         a.initial_deposit_for_new_account,
                      !.public_key_for_new_account =
                         a.public_key_for_new_account]
       [] a.action_type = "DeployContract" -> [e EXCEPT !.code = a.code]
       [] a.action_type = "FunctionCall" ->
            [e EXCEPT !.receiver_id = a.receiver_id,
                      !.method_name = a.method_name, !.args = a.args,
                      !.deposit = a.deposit, !.gas = a.gas]
       [] a.action_type = "Transfer" ->
            [e EXCEPT !.receiver_id = a.receiver_id, !.amount = a.amount]
       [] a.action_type = "Stake" ->
            [e EXCEPT !.stake = a.stake, !.public_key = a.public_key]
       [] a.action_type = "AddKey" ->
            [e EXCEPT !.public_key = a.public_key,
                      !.receiver_id = a.receiver_id,
                      !.allowance = a.allowance,
                      !.method_names = a.method_names]
       [] a.action_type = "DeleteKey" -> [e EXCEPT !.public_key = a.public_key]
       [] a.action_type = "DeleteAccount" ->
            [e EXCEPT !.beneficiary_id = a.beneficiary_id]

\* The primitive of each kind that is dispatched as a single operation.
PrimitiveOf(t) ==
  CASE t = "DeployContract" -> "deploy_contract"
    [] t = "FunctionCall" -> "function_call"
    [] t = "Transfer" -> "transfer"
    [] t = "Stake" -> "stake"
    [] t = "AddKey" -> "add_access_key_allowance"
    [] t = "DeleteKey" -> "delete_key"
    [] t = "DeleteAccount" -> "delete_account"
    [] OTHER -> "create_account"

\* Operation o carries the operands the descriptor a holds for its kind.
CarriesOwnOperands(o, a) ==
  CASE a.action_type = "DeployContract" -> a.code # None => o.code = a.code[1]
    [] a.action_type = "FunctionCall" ->
         /\ a.method_name # None => o.method_name = a.method_name[1]
         /\ a.args # None => o.args = a.args[1]
         /\ a.deposit # None => o.deposit = a.deposit[1]
         /\ a.gas # None => o.gas = a.gas[1]
    [] a.action_type = "Transfer" -> o.amount = a.amount[1]
    [] a.action_type = "Stake" ->
         o.amount = a.stake[1] /\ o.public_key = a.public_key[1]
    [] a.action_type = "AddKey" -> o.public_key = a.public_key[1]
    [] a.action_type = "DeleteKey" -> o.public_key = a.public_key[1]
    [] a.action_type = "DeleteAccount" ->
         o.beneficiary_id = a.beneficiary_id[1]
    [] OTHER -> TRUE

\* What the executed call schedules when it is made with descriptor a.
ScheduledFor(a) ==
  IF call.method = "execute_direct_actions"
  THEN execute_direct_actions(call.pre, call.predecessor, call.signer,
                              call.signer_pk, a).promises
  ELSE execute_delegated_actions(call.pre, call.predecessor,
                                 call.passkey_pk[1], a).promises

\* C33: a successful execute_direct_actions or execute_delegated_actions
\* schedules exactly one promise, on one target; for every kind but
\* CreateAccount the promise holds one operation, the primitive of that
\* kind, carrying the descriptor's own operands; and the same promise is
\* scheduled when the fields the kind does not read are made absent.
C33_OnePrimitiveOwnOperands ==
  (/\ Executed("execute_direct_actions")
        \/ Executed("execute_delegated_actions")
   /\ outcome.status = "ok")
    => /\ Len(scheduled) = 1
       /\ scheduled[1].target \in Accounts
       /\ call.action[1].action_type # "CreateAccount"
            => /\ Len(scheduled[1].actions) = 1
               /\ scheduled[1].actions[1].op
                    = PrimitiveOf(call.action[1].action_type)
               /\ CarriesOwnOperands(scheduled[1].actions[1], call.action[1])
       /\ scheduled = ScheduledFor(OwnFields(call.action[1]))

\* A direct Transfer whose descriptor also held a deposit, a gas, a stake
\* and every other field was scheduled as the one transfer of its amount.
C33_Witness ==
  /\ Dispatched("Transfer")
  /\ call.method = "execute_direct_actions"
  /\ call.action[1] = FullAction("Transfer")
  /\ scheduled = <<Promise(0, <<TransferOp(MaxAmount)>>)>>

\* C34: in both entry points an authorised AddKey without public_key or
\* without receiver_id panics and schedules nothing; otherwise it returns
\* and schedules one add-access-key on the contract's own account
\* (delegated) or the signer's account (direct), with the descriptor's
\* receiver_id as the account the key may call, the listed method names
\* joined (none when the list is absent) and the computed allowance.
C34_AddKeyScopeAndTarget ==
  ((DirectAuthorised \/ DelegatedAuthorised)
   /\ call.action[1].action_type = "AddKey")
    => LET a == call.action[1]
       IN IF a.public_key = None \/ a.receiver_id = None
          THEN /\ outcome.status = "panic"
               /\ scheduled = <<>>
          ELSE /\ outcome.status = "ok"
               /\ scheduled
                    = <<[target |-> IF call.method = "execute_direct_actions"
                                    THEN call.signer ELSE CurrentAccount,
                         actions |->
                           <<[op |-> "add_access_key_allowance",
                              public_key |-> a.public_key[1],
                              allowance |->
                                IF a.allowance = None \/ a.allowance[1] = 0
                                THEN <<"Unlimited">>
                                ELSE <<"Limited", a.allowance[1]>>,
                              receiver_id |-> a.receiver_id[1],
                              method_names |->
                                IF a.method_names = None THEN ""
                                ELSE Join(a.method_names[1])]>>]>>

\* A delegated AddKey scoped to another account, without a method list, put
\* the key on the contract's own account.
C34_Witness ==
  /\ DelegatedAuthorised
  /\ call.action[1].action_type = "AddKey"
  /\ call.action[1].receiver_id # None
  /\ call.action[1].receiver_id[1] # CurrentAccount
  /\ call.action[1].method_names = None
  /\ outcome.status = "ok"
  /\ scheduled[1].target = CurrentAccount
  /\ scheduled[1].actions[1].receiver_id = call.action[1].receiver_id[1]
  /\ scheduled[1].actions[1].method_names = ""

\* The descriptors a state is probed with: for each kind, the one with every
\* field present and the one with every field absent.
ProbeActions ==
  {FullAction(t) : t \in ActionType} \cup {EmptyAction(t) : t \in ActionType}

\* In state st every add_passkey_pk, remove_passkey_pk and
\* execute_delegated_actions call by R1 is refused as not coming from the
\* relayer, and the same calls by R2 pass that check: add and remove return,
\* and a delegated call returns when its key is registered and its
\* descriptor is complete.
RotationInForce(st, R1, R2) ==
  /\ st # None
  /\ \A k \in Keys :
       /\ add_passkey_pk(st, R2, k).status = "ok"
       /\ remove_passkey_pk(st, R2, k).status = "ok"
       /\ add_passkey_pk(st, R1, k).err = RelayerOnlyError("add_passkey_pk")
       /\ remove_passkey_pk(st, R1, k).err
            = RelayerOnlyError("remove_passkey_pk")
       /\ \A a \in ProbeActions :
            /\ execute_delegated_actions(st, R1, k, a).err
                 = RelayerOnlyError("execute_delegated_actions")
            /\ execute_delegated_actions(st, R2, k, a).err
                 # RelayerOnlyError("execute_delegated_actions")
            /\ (k \in st[1].registered_passkey_pks
                  /\ a \in {FullAction(t) : t \in ActionType})
                 => execute_delegated_actions(st, R2, k, a).status = "ok"

\* This step is the owner's set_trusted_relayer(R2), returning, while R1 is
\* the relayer.
OwnerRotates(R1, R2) ==
  /\ contract[1].trusted_relayer_account_id = R1
  /\ call'.method = "set_trusted_relayer"
  /\ call'.predecessor = contract[1].owner_id
  /\ call'.account_id = Some(R2)
  /\ outcome'.status = "ok"

\* C35: the step in which the owner's set_trusted_relayer(R2) replaces the
\* relayer R1 # R2 leaves the registry as it was and leads to a state in
\* which R1's add_passkey_pk, remove_passkey_pk and execute_delegated_actions
\* calls are rejected and R2's are accepted; and every step other than a
\* set_trusted_relayer call by the owner keeps it so.
C35_RelayerRotationEffective ==
  [][(contract # None /\ contract' # contract)
       => \A R1, R2 \in Accounts :
            (R1 # R2)
              => /\ OwnerRotates(R1, R2)
                      => /\ RotationInForce(contract', R1, R2)
                         /\ contract'[1].registered_passkey_pks
                              = contract[1].registered_passkey_pks
                 /\ (/\ RotationInForce(contract, R1, R2)
                     /\ ~(/\ call'.method = "set_trusted_relayer"
                          /\ call'.predecessor = contract[1].owner_id))
                      => RotationInForce(contract', R1, R2)]_vars

\* The owner replaced a relayer other than the owner while keys were
\* registered: the previous relayer is now refused, the new one accepted,
\* and the keys are still registered.
C35_Witness ==
  /\ Executed("set_trusted_relayer")
  /\ outcome.status = "ok"
  /\ PreRelayer # PreOwner
  /\ call.account_id[1] # PreRelayer
  /\ PrePks # {}
  /\ contract[1].registered_passkey_pks = PrePks
  /\ RotationInForce(contract, PreRelayer, call.account_id[1])

\* In state st every execute_direct_actions call signed with key k and every
\* execute_delegated_actions call passing k panics and schedules nothing,
\* whoever calls, whoever signs and whatever the descriptor.
Revoked(st, k) ==
  /\ st # None
  /\ k \notin st[1].registered_passkey_pks
  /\ \A p \in Accounts, a \in ProbeActions :
       /\ execute_delegated_actions(st, p, k, a).status = "panic"
       /\ execute_delegated_actions(st, p, k, a).promises = <<>>
       /\ \A s \in Accounts :
            /\ execute_direct_actions(st, p, s, k, a).status = "panic"
            /\ execute_direct_actions(st, p, s, k, a).promises = <<>>

\* C36: a step in which remove_passkey_pk(k) returns leads to a state in
\* which every execute_direct_actions signed with k and every
\* execute_delegated_actions passing k is rejected with nothing scheduled,
\* and every step other than a returning add_passkey_pk(k) keeps it so.
C36_RevocationEffective ==
  [][(/\ contract # None
      /\ contract' # contract \/ call'.method = "remove_passkey_pk")
       => \A k \in Keys :
            /\ (/\ call'.method = "remove_passkey_pk"
                /\ call'.passkey_pk = Some(k)
                /\ outcome'.status = "ok")
                 => Revoked(contract', k)
            /\ (/\ contract' # contract
                /\ Revoked(contract, k)
                /\ ~(/\ call'.method = "add_passkey_pk"
                     /\ call'.passkey_pk = Some(k)
                     /\ outcome'.status = "ok"))
                 => Revoked(contract', k)]_vars

\* The relayer removed one of two registered keys: calls with the removed
\* key are rejected while the other key is still registered.
C36_Witness ==
  /\ Executed("remove_passkey_pk")
  /\ outcome.status = "ok"
  /\ outcome.ret = Some(TRUE)
  /\ call.passkey_pk[1] \in PrePks
  /\ contract[1].registered_passkey_pks # {}
  /\ Revoked(contract, call.passkey_pk[1])

\* The <<relayer, owner>> pairs the executed call is replayed under: the
\* first and the last account, either way round.
ProbePairs == {<<0, NumAccounts - 1>>, <<NumAccounts - 1, 0>>}

\* The state before the executed call with relayer r and owner o in place
\* of its own: the registry is the same.
PreWith(r, o) ==
  Some([call.pre[1] EXCEPT !.trusted_relayer_account_id = r, !.owner_id = o])

\* C37: an execute_direct_actions call made with the same signer key, signer
\* account and descriptor on the same registry, but by another calling
\* account, under another relayer or another owner, ends the same way
\* (status, message, target and operations scheduled); and a registered
\* signer with a complete descriptor is accepted whoever calls.
C37_DirectOutcomeIndependentOfCaller ==
  Executed("execute_direct_actions")
    => /\ \A p \in Accounts, ro \in ProbePairs :
            LET other == execute_direct_actions(PreWith(ro[1], ro[2]), p,
                                                call.signer,
                                                call.signer_pk,
                                                call.action[1])
            IN /\ other.status = outcome.status
               /\ other.err = outcome.err
               /\ other.ret = outcome.ret
               /\ other.promises = scheduled
       /\ (call.signer_pk \in PrePks /\ DirectRequiredPresent(call.action[1]))
            => outcome.status = "ok"

\* A registered signer was accepted on a call that came from an account
\* that is neither the relayer, nor the owner, nor the signer.
C37_Witness ==
  /\ Executed("execute_direct_actions")
  /\ outcome.status = "ok"
  /\ call.predecessor \notin {PreRelayer, PreOwner, call.signer}
  /\ PreRelayer # PreOwner
  /\ Len(scheduled) = 1

\* C39: after create_reverie returns, get_balance of the created reverie is
\* 0 for every user, also when a reverie of the same id existed before,
\* held balances and was deleted.
C39_CreatedReverieStartsEmpty ==
  (PayExecuted("create_reverie") /\ payoutcome.status = "ok")
    => \A u \in Accounts :
         get_balance(payments, paycall.reverie_id[1], u).ret = Some(0)

\* The sum of f over the pairs of user u with every reverie id.
RECURSIVE UserTotal(_, _, _)
UserTotal(f, u, ids) ==
  IF ids = {} THEN 0
  ELSE LET id == CHOOSE i \in ids : TRUE
       IN Entry(f, <<id, u>>) + UserTotal(f, u, ids \ {id})

\* C38: for every reverie r that exists and was never deleted, and every
\* user u, get_balance(r, u) is what u deposited to r, less what withdraw
\* paid out to u from r, less what was recorded as spent against (r, u);
\* and for every user the transfers scheduled by withdraw total at most
\* what the user deposited.
C38_Conservation ==
  /\ \A r \in ReverieId :
       (ReverieExists(payments, r) /\ r \notin ledger.removed)
         => \A u \in Accounts :
              Balance(payments, r, u)
                = Entry(ledger.deposits, <<r, u>>)
                    - Entry(ledger.withdrawals, <<r, u>>)
                    - Entry(ledger.spends, <<r, u>>)
  /\ \A u \in Accounts :
       UserTotal(ledger.withdrawals, u, ReverieId)
         <= UserTotal(ledger.deposits, u, ReverieId)

\* A user withdrew part of a deposit to a reverie that was never deleted
\* and still holds a balance there, and a spend was recorded against a
\* user of that reverie.
C38_Witness ==
  \E r \in ReverieId, u \in Users :
    /\ ReverieExists(payments, r)
    /\ r \notin ledger.removed
    /\ Entry(ledger.withdrawals, <<r, u>>) > 0
    /\ Balance(payments, r, u) > 0
    /\ \E v \in Users : Entry(ledger.spends, <<r, v>>) > 0

====
